---- MODULE Spec2Model ----
(***************************************************************************)
(* NBA-TOTAL: the match processor (utils.processMatches) and the backtest  *)
(* panel of the betting simulator (BettingSimulator.calculateBacktestROI). *)
(*                                                                         *)
(* Numbers.  A JavaScript number is modelled as an exact fraction          *)
(* [n |-> numerator, d |-> denominator] in lowest terms with d > 0, plus   *)
(* the three IEEE specials encoded with d = 0: NaN (0/0), +Infinity (1/0)  *)
(* and -Infinity (-1/0).  Rounding of binary doubles is abstracted: every  *)
(* operation is exact.  A JSON number that is absent (undefined) is        *)
(* modelled as NaN, which is what it coerces to in every arithmetic and    *)
(* comparison the code performs, and is falsy like undefined under ||.     *)
(*                                                                         *)
(* Strings that the code parses are sequences of one-character strings;    *)
(* an absent (undefined) string field is the value Undefined.              *)
(***************************************************************************)
EXTENDS Integers, Sequences, FiniteSets, TLC

VARIABLES
    backtestMatches,    \* useState backtestMatches
    strategy,           \* useState strategy
    wager,              \* useState wager
    valueMargin,        \* useState valueMargin
    selectedTeam,       \* useState selectedTeam
    startDate,          \* useState startDate (<<>> = unset)
    endDate,            \* useState endDate (<<>> = unset)
    efficiencyThreshold,\* useState efficiencyThreshold
    results,            \* useMemo results = calculateBacktestROI()
    firstRun,           \* history: the first run's configuration and result, and
                        \* whether a run under another configuration followed
    call,               \* the call of a utils function in progress, or the
                        \* last getSeasonData that settled: its name,
                        \* arguments and return value
    defaultMatches,     \* prop matches: the default season's processed matches
    defaultTeams,       \* prop teams: the default season's TeamStats
    liveGames,          \* useData().liveGames
    liveFilter,         \* useState liveFilter
    activeSeasonId,     \* useState activeSeasonId
    loads,              \* the getSeasonData calls awaited by switchSeason, each
                        \* with the ordinal of its request
    isLoadingSeason,    \* useState isLoadingSeason
    effectPending,      \* the effect of a changed activeSeasonId is scheduled
                        \* and has not run yet
    requested,          \* history: the number of switchSeason runs started
    written,            \* history: the ordinal of the request whose data was
                        \* last given to setBacktestMatches (0: none)
    lineMovements,      \* DataProvider state.lineMovements, by game id
    loading,            \* DataProvider state.loading
    loadData,           \* the position of loadData: awaiting the historical
                        \* fetch, awaiting fetchLiveOdds, done or failed
    oddsCalls,          \* the fetchLiveOdds calls awaiting the odds API, each
                        \* with the state its closure holds
    storage             \* localStorage: the odds cache and the movements cache

\* what the season selector and the live evaluator add to the panel's state
liveVars == <<defaultMatches, defaultTeams, liveGames, liveFilter,
              activeSeasonId, loads, isLoadingSeason, effectPending,
              requested, written>>

\* what the data provider adds: its movements, its loading flag and its
\* calls in progress
providerVars == <<lineMovements, loading, loadData, oddsCalls, storage>>

vars == <<backtestMatches, strategy, wager, valueMargin, selectedTeam,
          startDate, endDate, efficiencyThreshold, results, firstRun, call,
          liveVars, providerVars>>

\* what the handlers of the backtest panel never write
outsidePanel == <<call, liveVars, providerVars>>

\* an absent localStorage item
NoItem == [absent |-> TRUE]

\* lineMovements: {}
NoMovements == [g \in {} |-> NoItem]

\* the provider after loadData has finished, nothing cached and no line moved
ProviderLoaded ==
    /\ lineMovements = NoMovements
    /\ loading = FALSE
    /\ loadData = "done"
    /\ oddsCalls = <<>>
    /\ storage = [cache |-> NoItem, movements |-> NoItem]

----------------------------------------------------------------------------
(* JavaScript numbers *)

Abs(x) == IF x < 0 THEN -x ELSE x

Sign(x) == IF x > 0 THEN 1 ELSE IF x < 0 THEN -1 ELSE 0

RECURSIVE Gcd(_, _)
Gcd(a, b) == IF b = 0 THEN a ELSE Gcd(b, a % b)

Norm(n, d) ==
    IF d = 0 THEN [n |-> Sign(n), d |-> 0]
    ELSE LET g == Gcd(Abs(n), Abs(d))
         IN  [n |-> (Sign(d) * n) \div g, d |-> Abs(d) \div g]

Int2Num(i) == [n |-> i, d |-> 1]

Frac(n, d) == Norm(n, d)

NaN == [n |-> 0, d |-> 0]

Infinity == [n |-> 1, d |-> 0]

Zero == Int2Num(0)

IsNaN(a) == a.n = 0 /\ a.d = 0

IsFinite(a) == a.d > 0

\* a + b
NumAdd(a, b) ==
    IF IsNaN(a) \/ IsNaN(b) THEN NaN
    ELSE IF a.d = 0 /\ b.d = 0 THEN (IF a.n = b.n THEN a ELSE NaN)
    ELSE IF a.d = 0 THEN a
    ELSE IF b.d = 0 THEN b
    ELSE Norm(a.n * b.d + b.n * a.d, a.d * b.d)

NumNeg(a) == [n |-> -a.n, d |-> a.d]

\* a - b
NumSub(a, b) == NumAdd(a, NumNeg(b))

\* a * b  (Infinity * 0 and NaN * x come out as 0/0 = NaN)
NumMul(a, b) == Norm(a.n * b.n, a.d * b.d)

\* a / b  (x / 0 is +-Infinity, 0 / 0 is NaN)
NumDiv(a, b) == Norm(a.n * b.d, a.d * b.n)

\* a < b  (false whenever an operand is NaN)
NumLt(a, b) ==
    IF IsNaN(a) \/ IsNaN(b) THEN FALSE
    ELSE IF a.d = 0 /\ b.d = 0 THEN a.n < b.n
    ELSE a.n * b.d < b.n * a.d

\* a > b
NumGt(a, b) == NumLt(b, a)

\* a <= b, a >= b
NumLe(a, b) == NumLt(a, b) \/ (~IsNaN(a) /\ a = b)

NumGe(a, b) == NumLe(b, a)

\* a === b on numbers (NaN is not equal to itself)
NumEq(a, b) == ~IsNaN(a) /\ a = b

\* the truthiness of a number: 0 and NaN are falsy
Truthy(a) == ~IsNaN(a) /\ a # Zero

\* a || b on numbers
NumOr(a, b) == IF Truthy(a) THEN a ELSE b

----------------------------------------------------------------------------
(* Strings and numeric extraction *)

Undefined == <<"undefined">>

Digits == <<"0", "1", "2", "3", "4", "5", "6", "7", "8", "9">>

IsDigit(c) == \E i \in 1..10 : Digits[i] = c

DigitVal(c) == (CHOOSE i \in 1..10 : Digits[i] = c) - 1

IsSpace(c) == c = " "

RECURSIVE SkipSpaces(_)
SkipSpaces(s) ==
    IF s # <<>> /\ IsSpace(Head(s)) THEN SkipSpaces(Tail(s)) ELSE s

\* the value of the longest prefix of digits of s, starting from acc;
\* seen tells whether a digit has been read
RECURSIVE ReadDigits(_, _, _)
ReadDigits(s, acc, seen) ==
    IF s # <<>> /\ IsDigit(Head(s))
    THEN ReadDigits(Tail(s), 10 * acc + DigitVal(Head(s)), TRUE)
    ELSE IF seen THEN Int2Num(acc) ELSE NaN

\* parseInt(s, 10): leading blanks, an optional sign, then digits; what
\* follows the digits is ignored; no digit at all gives NaN
ParseInt(s) ==
    LET t == SkipSpaces(s)
    IN  IF t # <<>> /\ Head(t) = "-" THEN NumNeg(ReadDigits(Tail(t), 0, FALSE))
        ELSE IF t # <<>> /\ Head(t) = "+" THEN ReadDigits(Tail(t), 0, FALSE)
        ELSE ReadDigits(t, 0, FALSE)

\* val || '0' : undefined and the empty string are falsy
StrOrZero(val) == IF val = Undefined \/ val = <<>> THEN <<"0">> ELSE val

\* const p = (val) => parseInt(val || '0', 10)
p(val) == ParseInt(StrOrZero(val))

\* obj[key] of a JSON object: Undefined when the key is absent
Field(obj, key) == IF key \in DOMAIN obj THEN obj[key] ELSE Undefined

----------------------------------------------------------------------------
(* utils: derived metrics *)

\* the sum of f[x] over the finite set S, as JavaScript numbers
RECURSIVE NumSum(_, _)
NumSum(f, S) ==
    IF S = {} THEN Zero
    ELSE LET x == CHOOSE y \in S : TRUE
         IN  NumAdd(f[x], NumSum(f, S \ {x}))

\* an absent (undefined) box-score line
NoStats == [absent |-> TRUE]

\* calculatePossessions: 0.96 * (FGA + 0.44 * FTA - ORB + TOV), 0 without stats
calculatePossessions(stats) ==
    IF stats = NoStats THEN Zero ELSE
    LET fga == p(Field(stats, "field_goals_attempted"))
        fta == p(Field(stats, "free_throws_attempted"))
        orb == p(Field(stats, "offensive_rebounds"))
        tov == p(Field(stats, "turnovers"))
    IN  NumMul(Frac(96, 100),
               NumAdd(NumSub(NumAdd(fga, NumMul(Frac(44, 100), fta)), orb), tov))

\* calculateTS(points, stats)
calculateTS(points, stats) ==
    IF stats = NoStats \/ points = Zero THEN Zero
    ELSE LET fga == p(Field(stats, "field_goals_attempted"))
             fta == p(Field(stats, "free_throws_attempted"))
             denominator == NumMul(Int2Num(2), NumAdd(fga, NumMul(Frac(44, 100), fta)))
         IN  IF denominator = Zero THEN Zero
             ELSE NumMul(NumDiv(points, denominator), Int2Num(100))

\* a Date: new Date("YYYY-MM-DD").getTime(), kept as a day count that is
\* monotone in the calendar date (the code only compares and subtracts dates)
NewDate(ymd) == ymd[1] * 372 + ymd[2] * 31 + ymd[3]

\* match.date.split(' ')[0].split('.').reverse().join('-'): DD.MM.YYYY -> YYYY-MM-DD
ReverseDate(dmy) == <<dmy[3], dmy[2], dmy[1]>>

Periods == <<"Q1", "Q2", "Q3", "Q4">>

\* the periods of quarter_stats in which the team has a box-score line
StatPeriods(match, team) ==
    {q \in DOMAIN match.quarter_stats : team \in DOMAIN match.quarter_stats[q]}

\* a stat field of one team summed over Object.values(match.quarter_stats)
SumStat(match, team, field) ==
    NumSum([q \in StatPeriods(match, team) |->
                p(Field(match.quarter_stats[q][team], field))],
           StatPeriods(match, team))

SumPoss(match, team) ==
    NumSum([q \in StatPeriods(match, team) |->
                calculatePossessions(match.quarter_stats[q][team])],
           StatPeriods(match, team))

\* variant: the points of overtime counted with the fourth quarter
QScoreThroughOvertime(match, q, side) ==
    IF q \notin DOMAIN match.quarter_scores THEN Zero
    ELSE IF q = "Q4" /\ "OT" \in DOMAIN match.quarter_scores
    THEN NumAdd(p(Field(match.quarter_scores[q], side)),
                p(Field(match.quarter_scores["OT"], side)))
    ELSE p(Field(match.quarter_scores[q], side))

\* match.quarter_scores[q] ? p(match.quarter_scores[q][side]) : 0
QScore(match, q, side) ==
    IF q \in DOMAIN match.quarter_scores
    THEN p(Field(match.quarter_scores[q], side))
    ELSE Zero

\* the OVER / UNDER / PUSH rule of processMatches
Settle(totalScore, line) ==
    IF NumLt(totalScore, line) THEN "UNDER"
    ELSE IF NumGt(totalScore, line) THEN "OVER"
    ELSE "PUSH"

\* the body of rawData.map(match => ...) in processMatches
processMatch(match) ==
    LET homeScore == p(match.home_score)
        awayScore == p(match.away_score)
        totalScore == NumAdd(homeScore, awayScore)
        line == match.line_odds.total_line
        homeReg == NumSum([i \in 1..4 |-> QScore(match, Periods[i], "home_score")], 1..4)
        awayReg == NumSum([i \in 1..4 |-> QScore(match, Periods[i], "away_score")], 1..4)
        homePoss == SumPoss(match, match.home_team)
        awayPoss == SumPoss(match, match.away_team)
        homeFGA == SumStat(match, match.home_team, "field_goals_attempted")
        homeFGM == SumStat(match, match.home_team, "field_goals_made")
        homeFTA == SumStat(match, match.home_team, "free_throws_attempted")
        awayFGA == SumStat(match, match.away_team, "field_goals_attempted")
        awayFGM == SumStat(match, match.away_team, "field_goals_made")
        awayFTA == SumStat(match, match.away_team, "free_throws_attempted")
        TSof(score, fga, fta) ==
            NumOr(NumMul(NumDiv(score,
                                NumMul(Int2Num(2),
                                       NumAdd(fga, NumMul(Frac(44, 100), fta)))),
                         Int2Num(100)),
                  Zero)
        FGof(fgm, fga) ==
            IF NumGt(fga, Zero) THEN NumMul(NumDiv(fgm, fga), Int2Num(100)) ELSE Zero
    IN  [ id |-> match.match_id,
          date |-> NewDate(ReverseDate(match.date)),
          homeTeam |-> match.home_team,
          awayTeam |-> match.away_team,
          homeScore |-> homeScore,
          awayScore |-> awayScore,
          totalScore |-> totalScore,
          regulationTotal |-> NumAdd(homeReg, awayReg),
          line |-> line,
          overOdds |-> NumOr(match.line_odds.over_odds, Frac(191, 100)),
          underOdds |-> NumOr(match.line_odds.under_odds, Frac(191, 100)),
          result |-> Settle(totalScore, line),
          diff |-> NumSub(totalScore, line),
          pace |-> NumDiv(NumAdd(homePoss, awayPoss), Int2Num(2)),
          homeTS |-> TSof(homeScore, homeFGA, homeFTA),
          awayTS |-> TSof(awayScore, awayFGA, awayFTA),
          homeFG_Pct |-> FGof(homeFGM, homeFGA),
          awayFG_Pct |-> FGof(awayFGM, awayFGA),
          quarterlyTotals |-> [i \in 1..4 |->
              NumAdd(QScore(match, Periods[i], "home_score"),
                     QScore(match, Periods[i], "away_score"))],
          homeQScores |-> [i \in 1..4 |-> QScore(match, Periods[i], "home_score")],
          awayQScores |-> [i \in 1..4 |-> QScore(match, Periods[i], "away_score")],
          isOT |-> "OT" \in DOMAIN match.quarter_scores ]

\* variant: x goes in front of the elements of its own date
RECURSIVE InsertByDateDescUnstable(_, _)
InsertByDateDescUnstable(x, s) ==
    IF s = <<>> THEN <<x>>
    ELSE IF Head(s).date > x.date
         THEN <<Head(s)>> \o InsertByDateDescUnstable(x, Tail(s))
    ELSE <<x>> \o s

\* Array.prototype.sort((a, b) => b.date.getTime() - a.date.getTime()):
\* a stable sort, date descending; x goes behind every element not older
RECURSIVE InsertByDateDesc(_, _)
InsertByDateDesc(x, s) ==
    IF s = <<>> THEN <<x>>
    ELSE IF Head(s).date >= x.date THEN <<Head(s)>> \o InsertByDateDesc(x, Tail(s))
    ELSE <<x>> \o s

RECURSIVE SortByDateDescFrom(_, _)
SortByDateDescFrom(s, acc) ==
    IF s = <<>> THEN acc
    ELSE SortByDateDescFrom(Tail(s), InsertByDateDesc(Head(s), acc))

\* variant: the array left in its input order
Unsorted(s) == s

SortByDateDesc(s) == SortByDateDescFrom(s, <<>>)

\* export const processMatches = (rawData) => rawData.map(...).sort(...)
processMatches(raw) ==
    SortByDateDesc([i \in 1..Len(raw) |-> processMatch(raw[i])])

----------------------------------------------------------------------------
(* utils: aggregateTeamStats *)

\* the keys of the teams object in insertion order: for each record the
\* home team then the away team, a name entering at its first appearance
RECURSIVE TeamOrderFrom(_, _)
TeamOrderFrom(raw, acc) ==
    IF raw = <<>> THEN acc
    ELSE LET m == Head(raw)
             a1 == IF \E k \in 1..Len(acc) : acc[k] = m.home_team
                   THEN acc ELSE Append(acc, m.home_team)
             a2 == IF \E k \in 1..Len(a1) : a1[k] = m.away_team
                   THEN a1 ELSE Append(a1, m.away_team)
         IN  TeamOrderFrom(Tail(raw), a2)

TeamOrder(raw) == TeamOrderFrom(raw, <<>>)

\* what one record adds to the totals of the team on one side of it
GameLine(m, side) ==
    LET team == IF side = "home" THEN m.home_team ELSE m.away_team
        hScore == p(m.home_score)
        aScore == p(m.away_score)
        own == IF side = "home" THEN hScore ELSE aScore
        opp == IF side = "home" THEN aScore ELSE hScore
        fga == SumStat(m, team, "field_goals_attempted")
        fgm == SumStat(m, team, "field_goals_made")
        tpm == SumStat(m, team, "3_point_field_goals_made")
        tpa == SumStat(m, team, "3_point_field_g_attempted")
        fta == SumStat(m, team, "free_throws_attempted")
        pace == NumDiv(NumAdd(SumPoss(m, m.home_team), SumPoss(m, m.away_team)),
                       Int2Num(2))
    IN  [ pointsFor |-> own,
          pointsAgainst |-> opp,
          pace |-> pace,
          ts |-> NumOr(NumMul(NumDiv(own, NumMul(Int2Num(2),
                           NumAdd(fga, NumMul(Frac(44, 100), fta)))), Int2Num(100)),
                       Zero),
          over |-> IF NumGt(NumAdd(hScore, aScore), m.line_odds.total_line)
                   THEN Int2Num(1) ELSE Zero,
          fga |-> fga,
          fgPct |-> IF NumGt(fga, Zero)
                    THEN NumMul(NumDiv(fgm, fga), Int2Num(100)) ELSE Zero,
          tpPct |-> IF NumGt(tpa, Zero)
                    THEN NumMul(NumDiv(tpm, tpa), Int2Num(100)) ELSE Zero,
          fouls |-> SumStat(m, team, "personal_fouls"),
          ftm |-> SumStat(m, team, "free_throws_made"),
          tov |-> SumStat(m, team, "turnovers"),
          fta |-> fta,
          reb |-> SumStat(m, team, "total_rebounds") ]

\* the updates of teams[t]: one per record and side on which t stands
Appearances(rawData, t) ==
    {<<i, "home">> : i \in {j \in 1..Len(rawData) : rawData[j].home_team = t}}
        \cup {<<i, "away">> : i \in {j \in 1..Len(rawData) : rawData[j].away_team = t}}

\* variant: the updates of the home side only
GamesPlayedAtHome(rawData, t) ==
    Cardinality({x \in Appearances(rawData, t) : x[2] = "home"})

\* gamesPlayed of team t: h.gamesPlayed++ and a.gamesPlayed++ of every record
GamesPlayed(rawData, t) == Cardinality(Appearances(rawData, t))

\* aggregateTeamStats(matches, rawData): the TeamStats in Object.values order
aggregateTeamStats(matches, rawData) ==
    IF Len(rawData) = 0 THEN <<>>
    ELSE LET names == TeamOrder(rawData)
         IN  [k \in 1..Len(names) |->
                LET t == names[k]
                    A == Appearances(rawData, t)
                    g == [x \in A |-> GameLine(rawData[x[1]], x[2])]
                    games == GamesPlayed(rawData, t)
                    Avg(field) == NumDiv(NumSum([x \in A |-> g[x][field]], A),
                                         Int2Num(games))
                IN  [ name |-> t,
                      gamesPlayed |-> games,
                      avgPointsFor |-> Avg("pointsFor"),
                      avgPointsAgainst |-> Avg("pointsAgainst"),
                      avgPace |-> Avg("pace"),
                      avgTS |-> Avg("ts"),
                      overRate |-> NumMul(Avg("over"), Int2Num(100)),
                      last10Avg |-> Zero,
                      avgFGA |-> Avg("fga"),
                      avgFG_Pct |-> Avg("fgPct"),
                      avg3P_Pct |-> Avg("tpPct"),
                      avgFouls |-> Avg("fouls"),
                      avgFTM |-> Avg("ftm"),
                      avgTurnovers |-> Avg("tov"),
                      avgFTA |-> Avg("fta"),
                      avgRebounds |-> Avg("reb") ]]

----------------------------------------------------------------------------
(* utils: generateMatchInsights *)

\* the integer square root of x >= 0, searched between lo and hi
RECURSIVE ISqrtBetween(_, _, _)
ISqrtBetween(x, lo, hi) ==
    IF lo >= hi THEN lo
    ELSE LET mid == (lo + hi + 1) \div 2
         IN  IF mid * mid <= x THEN ISqrtBetween(x, mid, hi)
             ELSE ISqrtBetween(x, lo, mid - 1)

ISqrt(x) == ISqrtBetween(x, 0, 46340)

\* Math.sqrt: NaN for NaN and for negatives, exact on squares of fractions,
\* otherwise cut to the hundredth
NumSqrt(a) ==
    IF IsNaN(a) \/ a.n < 0 THEN NaN
    ELSE IF a.d = 0 THEN a
    ELSE IF ISqrt(a.n) * ISqrt(a.n) = a.n /\ ISqrt(a.d) * ISqrt(a.d) = a.d
         THEN Frac(ISqrt(a.n), ISqrt(a.d))
    ELSE Frac(ISqrt(a.n * a.d * 10000), a.d * 100)

\* data.reduce((a, b) => a + b, 0) / data.length
getMean(data) ==
    NumDiv(NumSum(data, 1..Len(data)), Int2Num(Len(data)))

\* Math.sqrt(data.reduce((sq, n) => sq + Math.pow(n - m, 2), 0) / (data.length - 1))
getSD(data) ==
    LET m == getMean(data)
        sq == [i \in 1..Len(data) |->
                  NumMul(NumSub(data[i], m), NumSub(data[i], m))]
    IN  NumSqrt(NumDiv(NumSum(sq, 1..Len(data)), Int2Num(Len(data) - 1)))

\* the windows and thresholds of generateMatchInsights
HistoryWindow == 15

RecentWindow == 10

HighScoringTotal == 240

Q4TrendLimit == 2

\* m involves one of the two teams of match
SharesTeam(m, match) ==
    \/ m.homeTeam = match.homeTeam \/ m.awayTeam = match.homeTeam
    \/ m.homeTeam = match.awayTeam \/ m.awayTeam = match.awayTeam

\* variant: matches of the target's own date are kept
relevantHistoryNotLater(match, allMatches) ==
    SortByDateDesc(SelectSeq(allMatches,
        LAMBDA m : m.date <= match.date /\ SharesTeam(m, match)))

\* allMatches.filter(m => m.date < match.date && (...)).sort(newest first)
relevantHistory(match, allMatches) ==
    SortByDateDesc(SelectSeq(allMatches,
        LAMBDA m : m.date < match.date /\ SharesTeam(m, match)))

\* array.slice(0, n)
SliceTo(s, n) == SubSeq(s, 1, IF Len(s) < n THEN Len(s) ELSE n)

generateMatchInsights(match, allMatches) ==
    LET history == relevantHistory(match, allMatches)
        last15 == SliceTo(history, HistoryWindow)
        totals15 == [i \in 1..Len(last15) |-> last15[i].totalScore]
        last10 == SliceTo(history, RecentWindow)
        highScoringGames ==
            Cardinality({i \in 1..Len(last10) :
                NumGt(last10[i].totalScore, Int2Num(HighScoringTotal))})
        counted == {i \in 1..Len(last10) : Len(last10[i].quarterlyTotals) = 4}
        q4Diff == [i \in counted |->
            LET q == last10[i].quarterlyTotals
            IN  NumSub(q[4], NumDiv(NumAdd(NumAdd(q[1], q[2]), q[3]), Int2Num(3)))]
        q4TrendValue ==
            IF Cardinality(counted) > 0
            THEN NumDiv(NumSum(q4Diff, counted), Int2Num(Cardinality(counted)))
            ELSE Zero
    IN  [ mean15 |-> IF Len(totals15) > 0 THEN getMean(totals15) ELSE Zero,
          sd15 |-> IF Len(totals15) > 0 THEN getSD(totals15) ELSE Zero,
          highScoringRate |->
              IF Len(last10) > 0
              THEN NumMul(NumDiv(Int2Num(highScoringGames), Int2Num(Len(last10))),
                          Int2Num(100))
              ELSE Zero,
          q4Trend |->
              IF NumLt(q4TrendValue, Int2Num(-Q4TrendLimit)) THEN "Fade (-)"
              ELSE IF NumGt(q4TrendValue, Int2Num(Q4TrendLimit))
                   THEN "High Intensity (+)"
              ELSE "Neutral",
          q4TrendValue |-> q4TrendValue ]

----------------------------------------------------------------------------
(* utils: analyzeMatchup *)

\* 1. Pace Clash: combinedFGA > 175
PaceFires(t1, t2) == NumGt(NumAdd(t1.avgFGA, t2.avgFGA), Int2Num(175))

\* variant: 33 itself counts as low
BrickFiresInclusive(t1, t2) ==
    NumLe(t1.avg3P_Pct, Int2Num(33)) /\ NumLe(t2.avg3P_Pct, Int2Num(33))

\* 2. Brick City: t1.avg3P_Pct < 33 && t2.avg3P_Pct < 33
BrickFires(t1, t2) ==
    NumLt(t1.avg3P_Pct, Int2Num(33)) /\ NumLt(t2.avg3P_Pct, Int2Num(33))

\* 3. Whistle Heavy: combinedFouls > 40 && combinedFTM > 35
FoulFires(t1, t2) ==
    /\ NumGt(NumAdd(t1.avgFouls, t2.avgFouls), Int2Num(40))
    /\ NumGt(NumAdd(t1.avgFTM, t2.avgFTM), Int2Num(35))

\* 4. Hot offense of a against the defense of b
MismatchFires(a, b) ==
    NumGt(a.avgPointsFor, Int2Num(115)) /\ NumGt(b.avgPointsAgainst, Int2Num(115))

\* variant: one stingy defense is enough
DefenseFiresEither(t1, t2) ==
    NumLt(t1.avgPointsAgainst, Int2Num(108)) \/ NumLt(t2.avgPointsAgainst, Int2Num(108))

\* 5. Defensive Battle: both teams allow < 108
DefenseFires(t1, t2) ==
    NumLt(t1.avgPointsAgainst, Int2Num(108)) /\ NumLt(t2.avgPointsAgainst, Int2Num(108))

\* analyzeMatchup(t1, t2): the insights pushed, in the order of the rules;
\* of each insight the type and the title are kept (desc and color are
\* display texts)
analyzeMatchup(t1, t2) ==
    LET When(c, type, title) == IF c THEN <<[type |-> type, title |-> title]>> ELSE <<>>
    IN  When(PaceFires(t1, t2), "PACE", <<"Pace Clash: High Volume">>)
        \o When(BrickFires(t1, t2), "BRICK", <<"Brick City Warning">>)
        \o When(FoulFires(t1, t2), "FOUL", <<"Whistle Heavy">>)
        \o When(MismatchFires(t1, t2), "MISMATCH", <<t1.name, "Scoring Potential">>)
        \o When(MismatchFires(t2, t1), "MISMATCH", <<t2.name, "Scoring Potential">>)
        \o When(DefenseFires(t1, t2), "DEFENSE", <<"Defensive Battle">>)

----------------------------------------------------------------------------
(* utils: calculateMarketInsights *)

\* Math.abs
NumAbs(a) == [n |-> Abs(a.n), d |-> a.d]

\* the keys of stats in insertion order: of each match the home team, then
\* the away team, a team at its first appearance
RECURSIVE MarketTeamsFrom(_, _)
MarketTeamsFrom(matches, acc) ==
    IF matches = <<>> THEN acc
    ELSE LET m == Head(matches)
             a1 == IF \E k \in 1..Len(acc) : acc[k] = m.homeTeam
                   THEN acc ELSE Append(acc, m.homeTeam)
             a2 == IF \E k \in 1..Len(a1) : a1[k] = m.awayTeam
                   THEN a1 ELSE Append(a1, m.awayTeam)
         IN  MarketTeamsFrom(Tail(matches), a2)

\* stats[team] after the forEach over the first k matches
RECURSIVE MarketStats(_, _, _)
MarketStats(matches, team, k) ==
    IF k = 0 THEN [totalDiff |-> Zero, games |-> 0, overs |-> 0]
    ELSE LET before == MarketStats(matches, team, k - 1)
             m == matches[k]
             sides == (IF m.homeTeam = team THEN 1 ELSE 0)
                        + (IF m.awayTeam = team THEN 1 ELSE 0)
             Add(st) == [totalDiff |-> NumAdd(st.totalDiff, NumAbs(m.diff)),
                         games |-> st.games + 1,
                         overs |-> st.overs + (IF m.result = "OVER" THEN 1 ELSE 0)]
         IN  IF sides = 0 THEN before
             ELSE IF sides = 1 THEN Add(before)
             ELSE Add(Add(before))

\* results: one entry per team, in insertion order
marketResults(matches) ==
    LET order == MarketTeamsFrom(matches, <<>>)
    IN  [k \in 1..Len(order) |->
            LET data == MarketStats(matches, order[k], Len(matches))
            IN  [name |-> order[k],
                 avgDiff |-> NumDiv(data.totalDiff, Int2Num(data.games)),
                 overPct |-> NumMul(NumDiv(Int2Num(data.overs), Int2Num(data.games)),
                                    Int2Num(100))]]

\* what Array.prototype.sort makes of the comparator's value a - b: its
\* sign, NaN counting as +0
SortSign(a, b) ==
    LET v == NumSub(a, b) IN IF IsNaN(v) THEN 0 ELSE Sign(v.n)

\* whether (a, b) => a - b is a consistent comparison function over keys
ConsistentComparator(keys) ==
    \A i, j, k \in DOMAIN keys :
        /\ SortSign(keys[i], keys[j]) = -SortSign(keys[j], keys[i])
        /\ (SortSign(keys[i], keys[j]) = 0 /\ SortSign(keys[j], keys[k]) = 0)
              => SortSign(keys[i], keys[k]) = 0
        /\ (SortSign(keys[i], keys[j]) < 0 /\ SortSign(keys[j], keys[k]) < 0)
              => SortSign(keys[i], keys[k]) < 0

\* absent result: element [0] of an empty array
NoRanking == [absent |-> TRUE]

\* the values [...results].sort((a, b) => key(a) - key(b))[0] can take: the
\* sort is stable, so under a consistent comparator it is the first entry
\* that none precedes; otherwise the order is implementation-defined
SortedHeads(entries, keys) ==
    IF entries = <<>> THEN {NoRanking}
    ELSE IF ConsistentComparator(keys)
    THEN {entries[i] : i \in {h \in DOMAIN entries :
              /\ \A j \in DOMAIN entries : SortSign(keys[j], keys[h]) >= 0
              /\ \A j \in 1..(h - 1) : SortSign(keys[j], keys[h]) # 0}}
    ELSE {entries[i] : i \in DOMAIN entries}

\* calculateMarketInsights(matches): the values it can return
calculateMarketInsights(matches) ==
    LET entries == marketResults(matches)
        avgDiffs == [k \in DOMAIN entries |-> entries[k].avgDiff]
        overPcts == [k \in DOMAIN entries |-> entries[k].overPct]
        Desc(keys) == [k \in DOMAIN keys |-> NumNeg(keys[k])]
    IN  [nightmares : SortedHeads(entries, Desc(avgDiffs)),
         sharps : SortedHeads(entries, avgDiffs),
         overKings : SortedHeads(entries, Desc(overPcts)),
         underKings : SortedHeads(entries, overPcts)]

----------------------------------------------------------------------------
(* BettingSimulator: the backtest panel *)

\* normalizeTeamName: map[name] || name, the map holding one entry
normalizeTeamName(name) ==
    IF name = "LA Clippers" THEN "Los Angeles Clippers" ELSE name

\* x.toFixed(1), kept as the number the printed text denotes
ToFixed1(x) ==
    IF ~IsFinite(x) THEN x
    ELSE Frac(Sign(x.n) * ((20 * Abs(x.n) + x.d) \div (2 * x.d)), 10)

\* the keys of the stats object built by currentTeamStats
TeamsOf(bm) ==
    {bm[i].homeTeam : i \in 1..Len(bm)} \cup {bm[i].awayTeam : i \in 1..Len(bm)}

\* currentTeamStats: the light aggregator over backtestMatches, by team name
currentTeamStats(bm) ==
    [t \in TeamsOf(bm) |->
        LET idx == 1..Len(bm)
            asHome(i) == bm[i].homeTeam = t
            asAway(i) == bm[i].awayTeam = t
            pick(c, x) == IF c THEN x ELSE Zero
            pointsFor == NumSum([i \in idx |->
                NumAdd(pick(asHome(i), bm[i].homeScore),
                       pick(asAway(i), bm[i].awayScore))], idx)
            pointsAgainst == NumSum([i \in idx |->
                NumAdd(pick(asHome(i), bm[i].awayScore),
                       pick(asAway(i), bm[i].homeScore))], idx)
            fgSum == NumSum([i \in idx |->
                NumAdd(pick(asHome(i), bm[i].homeFG_Pct),
                       pick(asAway(i), bm[i].awayFG_Pct))], idx)
            games == Cardinality({i \in idx : asHome(i)})
                     + Cardinality({i \in idx : asAway(i)})
        IN  [ name |-> t,
              avgPointsFor |-> NumDiv(pointsFor, Int2Num(games)),
              avgPointsAgainst |-> NumDiv(pointsAgainst, Int2Num(games)),
              avgFG_Pct |-> NumDiv(fgSum, Int2Num(games)) ]]

\* getTeamStats(name) finds an entry: teamStats.find(...) is not undefined
HasTeamStats(teamStats, name) == normalizeTeamName(name) \in DOMAIN teamStats

\* getTeamStats(name) = currentTeamStats.find(t => t.name === normalizeTeamName(name))
getTeamStats(teamStats, name) == teamStats[normalizeTeamName(name)]

\* the fallback league average of an empty dataset
DefaultLeagueAvg == 230

\* variant: the mean of the lines instead of the totals
leagueAvgOfLines(bm) ==
    IF Len(bm) > 0
    THEN NumDiv(NumSum([i \in 1..Len(bm) |-> bm[i].line], 1..Len(bm)),
                Int2Num(Len(bm)))
    ELSE Int2Num(DefaultLeagueAvg)

\* leagueAvg: the mean totalScore of backtestMatches
leagueAvg(bm) ==
    IF Len(bm) > 0
    THEN NumDiv(NumSum([i \in 1..Len(bm) |-> bm[i].totalScore], 1..Len(bm)),
                Int2Num(Len(bm)))
    ELSE Int2Num(DefaultLeagueAvg)

\* variant: an end date that excludes its own day
PassesFilterExclusiveEnd(m, cfg) ==
    /\ \/ cfg.selectedTeam = "ALL"
       \/ m.homeTeam = cfg.selectedTeam
       \/ m.awayTeam = cfg.selectedTeam
    /\ (cfg.startDate = <<>> \/ m.date >= NewDate(cfg.startDate))
    /\ (cfg.endDate = <<>> \/ m.date < NewDate(cfg.endDate))

\* teamMatch && dateMatch of the filter of calculateBacktestROI
PassesFilter(m, cfg) ==
    /\ \/ cfg.selectedTeam = "ALL"
       \/ m.homeTeam = cfg.selectedTeam
       \/ m.awayTeam = cfg.selectedTeam
    /\ (cfg.startDate = <<>> \/ m.date >= NewDate(cfg.startDate))
    /\ (cfg.endDate = <<>> \/ m.date <= NewDate(cfg.endDate))

\* backtestMatches.filter(...).sort(...)
filteredMatches(bm, cfg) ==
    SortByDateDesc(SelectSeq(bm, LAMBDA m : PassesFilter(m, cfg)))

\* variant: Over whatever the strategy names
BlindPickAlwaysOver(strat) == "OVER"

\* the two blind branches: the side named by the strategy
BlindPick(strat) == IF strat = "ALL_OVER" THEN "OVER" ELSE "UNDER"

\* variant: a threshold that fires on equality
EfficiencyPickInclusive(combinedFG, threshold) ==
    IF NumGe(combinedFG, threshold) THEN "OVER" ELSE "NONE"

\* the HIGH_EFFICIENCY_OVER branch, given both teams' stats
EfficiencyPick(combinedFG, threshold) ==
    IF NumGt(combinedFG, threshold) THEN "OVER" ELSE "NONE"

\* variant: a margin that fires on equality
ReversionPickInclusive(line, avg, margin) ==
    IF NumGe(line, NumAdd(avg, margin)) THEN "UNDER"
    ELSE IF NumLe(line, NumSub(avg, margin)) THEN "OVER"
    ELSE "NONE"

\* the LEAGUE_AVG_REVERSION branch
ReversionPick(line, avg, margin) ==
    IF NumGt(line, NumAdd(avg, margin)) THEN "UNDER"
    ELSE IF NumLt(line, NumSub(avg, margin)) THEN "OVER"
    ELSE "NONE"

\* the TEAM_MODEL branch, given both teams' stats
projectedTotal(home, away) ==
    LET homeAvgTotal == NumAdd(home.avgPointsFor, home.avgPointsAgainst)
        awayAvgTotal == NumAdd(away.avgPointsFor, away.avgPointsAgainst)
    IN  NumMul(NumDiv(NumAdd(homeAvgTotal, awayAvgTotal), Int2Num(4)), Int2Num(2))

\* variant: a margin that fires on equality
ModelPickInclusive(projected, line, margin) ==
    IF NumGe(projected, NumAdd(line, margin)) THEN "OVER"
    ELSE IF NumLe(projected, NumSub(line, margin)) THEN "UNDER"
    ELSE "NONE"

\* the comparison of the projection with line +/- valueMargin
ModelPick(projected, line, margin) ==
    IF NumGt(projected, NumAdd(line, margin)) THEN "OVER"
    ELSE IF NumLt(projected, NumSub(line, margin)) THEN "UNDER"
    ELSE "NONE"

\* the signal of one match: betType ("NONE" when shouldBet stays false) and
\* the parts of the reason text; teamStats and avg are the render's
\* currentTeamStats and leagueAvg
Signal(match, teamStats, avg, cfg) ==
    IF cfg.strategy \in {"ALL_OVER", "ALL_UNDER"}
    THEN [pick |-> BlindPick(cfg.strategy), reason |-> <<"Blind Bet">>]
    ELSE IF cfg.strategy = "HIGH_EFFICIENCY_OVER" THEN
        IF HasTeamStats(teamStats, match.homeTeam) /\ HasTeamStats(teamStats, match.awayTeam)
        THEN LET home == getTeamStats(teamStats, match.homeTeam)
                 away == getTeamStats(teamStats, match.awayTeam)
                 combinedFG == NumDiv(NumAdd(home.avgFG_Pct, away.avgFG_Pct), Int2Num(2))
                 pick == EfficiencyPick(combinedFG, cfg.efficiencyThreshold)
             IN  [pick |-> pick,
                  reason |-> IF pick = "NONE" THEN <<>>
                             ELSE <<"Combined FG%", ToFixed1(combinedFG), ">",
                                    cfg.efficiencyThreshold>>]
        ELSE [pick |-> "NONE", reason |-> <<>>]
    ELSE IF cfg.strategy = "LEAGUE_AVG_REVERSION" THEN
        LET pick == ReversionPick(match.line, avg, cfg.valueMargin)
        IN  [pick |-> pick,
             reason |-> IF pick = "NONE" THEN <<>>
                        ELSE <<"Line", match.line,
                               IF pick = "UNDER" THEN "> League Avg" ELSE "< League Avg",
                               ToFixed1(avg),
                               IF pick = "UNDER" THEN "+" ELSE "-", cfg.valueMargin>>]
    ELSE IF cfg.strategy = "TEAM_MODEL" THEN
        IF HasTeamStats(teamStats, match.homeTeam) /\ HasTeamStats(teamStats, match.awayTeam)
        THEN LET proj == projectedTotal(getTeamStats(teamStats, match.homeTeam),
                                        getTeamStats(teamStats, match.awayTeam))
                 pick == ModelPick(proj, match.line, cfg.valueMargin)
             IN  [pick |-> pick,
                  reason |-> IF pick = "NONE" THEN <<>>
                             ELSE <<"Model Proj", ToFixed1(proj),
                                    IF pick = "OVER" THEN "> Line" ELSE "< Line",
                                    match.line>>]
        ELSE [pick |-> "NONE", reason |-> <<>>]
    ELSE [pick |-> "NONE", reason |-> <<>>]

\* variant: the over odds for either side
OddsOfOverAlways(match, betType) == match.overOdds

\* const odds = betType === 'OVER' ? match.overOdds : match.underOdds
OddsOf(match, betType) ==
    IF betType = "OVER" THEN match.overOdds ELSE match.underOdds

\* won / lost of a placed bet
Won(match, betType) ==
    IF betType = "OVER" THEN NumGt(match.totalScore, match.line)
    ELSE NumLt(match.totalScore, match.line)

Lost(match, betType) ==
    IF betType = "OVER" THEN NumLt(match.totalScore, match.line)
    ELSE NumGt(match.totalScore, match.line)

\* the counters at the start of a run
NoBets ==
    [wins |-> 0, losses |-> 0, pushes |-> 0, profit |-> Zero, betsPlaced |-> 0,
     historyLogs |-> <<>>]

\* variant: a push is logged without being counted as a bet
PlaceBetPushUncounted(acc, match, sig, cfg) ==
    LET betType == sig.pick
        odds == OddsOf(match, betType)
        won == Won(match, betType)
        lost == ~won /\ Lost(match, betType)
        w == Int2Num(cfg.wager)
        resultPnl == IF won THEN NumMul(w, NumSub(odds, Int2Num(1)))
                     ELSE IF lost THEN NumNeg(w)
                     ELSE Zero
    IN  [ wins |-> acc.wins + (IF won THEN 1 ELSE 0),
          losses |-> acc.losses + (IF lost THEN 1 ELSE 0),
          pushes |-> acc.pushes + (IF ~won /\ ~lost THEN 1 ELSE 0),
          profit |-> IF won THEN NumAdd(acc.profit, resultPnl)
                     ELSE IF lost THEN NumSub(acc.profit, w)
                     ELSE acc.profit,
          betsPlaced |-> acc.betsPlaced + (IF won \/ lost THEN 1 ELSE 0),
          historyLogs |-> Append(acc.historyLogs,
              [ id |-> match.id, date |-> match.date,
                home |-> match.homeTeam, away |-> match.awayTeam,
                score |-> match.totalScore, line |-> match.line,
                pick |-> betType,
                result |-> IF won THEN "WIN" ELSE IF lost THEN "LOSS" ELSE "PUSH",
                pnl |-> resultPnl,
                reason |-> sig.reason ]) ]

\* the body of filteredMatches.forEach(match => ...) for a match with a signal
PlaceBet(acc, match, sig, cfg) ==
    LET betType == sig.pick
        odds == OddsOf(match, betType)
        won == Won(match, betType)
        lost == ~won /\ Lost(match, betType)
        w == Int2Num(cfg.wager)
        resultPnl == IF won THEN NumMul(w, NumSub(odds, Int2Num(1)))
                     ELSE IF lost THEN NumNeg(w)
                     ELSE Zero
    IN  [ wins |-> acc.wins + (IF won THEN 1 ELSE 0),
          losses |-> acc.losses + (IF lost THEN 1 ELSE 0),
          pushes |-> acc.pushes + (IF ~won /\ ~lost THEN 1 ELSE 0),
          profit |-> IF won THEN NumAdd(acc.profit, resultPnl)
                     ELSE IF lost THEN NumSub(acc.profit, w)
                     ELSE acc.profit,
          betsPlaced |-> acc.betsPlaced + 1,
          historyLogs |-> Append(acc.historyLogs,
              [ id |-> match.id, date |-> match.date,
                home |-> match.homeTeam, away |-> match.awayTeam,
                score |-> match.totalScore, line |-> match.line,
                pick |-> betType,
                result |-> IF won THEN "WIN" ELSE IF lost THEN "LOSS" ELSE "PUSH",
                pnl |-> resultPnl,
                reason |-> sig.reason ]) ]

\* filteredMatches.forEach(match => ...), from the counters acc
RECURSIVE RunFrom(_, _, _, _, _)
RunFrom(ms, acc, teamStats, avg, cfg) ==
    IF ms = <<>> THEN acc
    ELSE LET sig == Signal(Head(ms), teamStats, avg, cfg)
         IN  RunFrom(Tail(ms),
                     IF sig.pick # "NONE" THEN PlaceBet(acc, Head(ms), sig, cfg) ELSE acc,
                     teamStats, avg, cfg)

\* variant: profit over a single wager
RoiOfPerWager(profit, betsPlaced, w) ==
    IF betsPlaced > 0
    THEN NumMul(NumDiv(profit, Int2Num(w)), Int2Num(100))
    ELSE Zero

\* const roi = betsPlaced > 0 ? (profit / (betsPlaced * wager)) * 100 : 0
RoiOf(profit, betsPlaced, w) ==
    IF betsPlaced > 0
    THEN NumMul(NumDiv(profit, NumMul(Int2Num(betsPlaced), Int2Num(w))), Int2Num(100))
    ELSE Zero

\* calculateBacktestROI over the dataset bm under the configuration cfg
calculateBacktestROI(bm, cfg) ==
    LET avg == leagueAvg(bm)
        acc == RunFrom(filteredMatches(bm, cfg), NoBets, currentTeamStats(bm), avg, cfg)
    IN  [ wins |-> acc.wins, losses |-> acc.losses, pushes |-> acc.pushes,
          profit |-> acc.profit,
          roi |-> RoiOf(acc.profit, acc.betsPlaced, cfg.wager),
          totalBets |-> acc.betsPlaced,
          leagueAvg |-> avg,
          historyLogs |-> acc.historyLogs ]

----------------------------------------------------------------------------
(* The season file: raw records *)

MaxMatches == 2

MaxRecords == 3

\* the runs of switchSeason a behaviour starts, the one at mount included
MaxRequests == 3

Str115 == <<"1", "1", "5">>

\* one period's score line and one period's box-score line of a team
QS(h, a) == [home_score |-> h, away_score |-> a]

Box(fga, fgm) ==
    [ field_goals_attempted |-> fga, field_goals_made |-> fgm,
      free_throws_attempted |-> <<"2", "0">>, offensive_rebounds |-> <<"1", "0">> ]

\* a raw record whose box score is recorded under the single period "Q1"
Raw(id, dmy, home, away, hs, as, line, oo, uo, hfgm, afgm) ==
    [ match_id |-> id, date |-> dmy, home_team |-> home, away_team |-> away,
      home_score |-> hs, away_score |-> as,
      quarter_scores |-> [q \in {"Q1"} |-> QS(hs, as)],
      quarter_stats |-> [q \in {"Q1"} |->
          IF home = away
          THEN [t \in {home} |-> Box(<<"1", "0", "0">>, afgm)]
          ELSE [t \in {home, away} |->
                    Box(<<"1", "0", "0">>, IF t = home THEN hfgm ELSE afgm)]],
      line_odds |-> [total_line |-> line, over_odds |-> oo, under_odds |-> uo] ]

\* the records a season file is made of
Catalogue ==
    << Raw("m1", <<10, 1, 2025>>, "Boston Celtics", "Denver Nuggets",
           Str115, Str115, Int2Num(236), NaN, Frac(195, 100),
           <<"4", "5">>, <<"4", "8">>),
       Raw("m2", <<11, 1, 2025>>, "Denver Nuggets", "Boston Celtics",
           <<"1", "2", "0">>, <<"1", "1", "0">>, Int2Num(224),
           Frac(191, 100), Frac(187, 100), <<"4", "7">>, <<"4", "8">>),
       Raw("m3", <<11, 1, 2025>>, "Boston Celtics", "LA Clippers",
           <<"1", "1", "7">>, <<"1", "1", "3">>, Int2Num(230),
           Int2Num(2), Frac(18, 10), <<"5", "0">>, <<"4", "4">>),
       Raw("m4", <<12, 1, 2025>>, "Los Angeles Clippers", "LA Clippers",
           <<"1", "2", "1">>, <<"1", "1", "8">>, Frac(449, 2),
           Frac(191, 100), Frac(191, 100), <<"5", "2">>, <<"4", "1">>),
       Raw("m5", <<12, 1, 2025>>, "Denver Nuggets", "Boston Celtics",
           <<"1", "0", "4">>, <<"-">>, Int2Num(225),
           Frac(191, 100), Frac(191, 100), <<"4", "0">>, Undefined) >>

\* the files of up to k distinct records of cat, in any order
FilesUpTo(cat, k) ==
    UNION { { [i \in 1..n |-> cat[f[i]]] :
                f \in { g \in [1..n -> 1..Len(cat)] :
                          \A i, j \in 1..n : i # j => g[i] # g[j] } } :
            n \in 0..k }

\* the season files: up to MaxMatches distinct records, in any order
SeasonFiles == FilesUpTo(Catalogue, MaxMatches)

\* records with their periods spelt out: an overtime game with all four
\* quarters, and a game that lacks Q3 and has no box score at all
PeriodRecords ==
    << [ match_id |-> "m7", date |-> <<8, 1, 2025>>,
         home_team |-> "Boston Celtics", away_team |-> "Denver Nuggets",
         home_score |-> <<"1", "2", "2">>, away_score |-> <<"1", "2", "0">>,
         quarter_scores |->
             ("Q1" :> QS(<<"3", "0">>, <<"2", "8">>)) @@
             ("Q2" :> QS(<<"2", "5">>, <<"2", "7">>)) @@
             ("Q3" :> QS(<<"2", "6">>, <<"2", "4">>)) @@
             ("Q4" :> QS(<<"2", "9">>, <<"3", "1">>)) @@
             ("OT" :> QS(<<"1", "2">>, <<"1", "0">>)),
         quarter_stats |-> [q \in {"Q1"} |->
             [t \in {"Boston Celtics", "Denver Nuggets"} |->
                 Box(<<"1", "0", "0">>, <<"4", "8">>)]],
         line_odds |-> [total_line |-> Int2Num(230), over_odds |-> Frac(191, 100),
                        under_odds |-> Frac(191, 100)] ],
       [ match_id |-> "m8", date |-> <<7, 1, 2025>>,
         home_team |-> "Denver Nuggets", away_team |-> "Boston Celtics",
         home_score |-> <<"9", "0">>, away_score |-> <<"9", "0">>,
         quarter_scores |->
             ("Q1" :> QS(<<"3", "0">>, <<"3", "0">>)) @@
             ("Q2" :> QS(<<"2", "5">>, <<"2", "5">>)) @@
             ("Q4" :> QS(<<"3", "5">>, <<"3", "5">>)),
         quarter_stats |-> [q \in {} |-> <<>>],
         line_odds |-> [total_line |-> Int2Num(200), over_odds |-> Frac(191, 100),
                        under_odds |-> Frac(191, 100)] ] >>

\* the raw datasets handed to the utils functions: the catalogue and a record
\* that names the same team on both sides, up to MaxRecords records, and the
\* records with periods beside the first of the catalogue
RawDatasets ==
    FilesUpTo(Catalogue \o
              << Raw("m6", <<9, 1, 2025>>, "Boston Celtics", "Boston Celtics",
                     <<"1", "1", "0">>, <<"1", "0", "8">>, Int2Num(220),
                     Frac(191, 100), Frac(191, 100), <<"4", "6">>, <<"4", "6">>) >>,
              MaxRecords)
        \cup FilesUpTo(PeriodRecords \o <<Catalogue[1]>>, MaxRecords)

\* no utils call in progress
NoCall == [fn |-> "none"]

----------------------------------------------------------------------------
(* BettingSimulator: the live evaluator *)

ReversionThreshold == 5

\* array.find(...) that found nothing, and a game mapped to null
NotFound == [absent |-> TRUE]

\* s.find(x => x[field] === val)
FindBy(s, field, val) ==
    IF \E k \in DOMAIN s : s[k][field] = val
    THEN s[CHOOSE k \in DOMAIN s :
               s[k][field] = val /\ \A j \in 1..(k - 1) : s[j][field] # val]
    ELSE NotFound

\* variant: the matches of the backtest panel
LiveMatchesOfPanel(defaults, panel) == panel

\* of the component's two datasets, the prop defaultMatches and the state
\* backtestMatches, the one the live league average is taken over
LiveMatches(defaults, panel) == defaults

\* currentLeagueAvg
currentLeagueAvg(matches) ==
    IF Len(matches) > 0
    THEN NumDiv(NumSum([i \in 1..Len(matches) |-> matches[i].totalScore],
                       1..Len(matches)),
                Int2Num(Len(matches)))
    ELSE Int2Num(230)

\* what liveGames.map(...) makes of one game
liveValueBet(game, teams, matches, margin, threshold) ==
    LET totalsMarket == IF game.bookmakers = <<>> THEN NotFound
                        ELSE FindBy(game.bookmakers[1].markets, "key", "totals")
        over == FindBy(totalsMarket.outcomes, "name", "Over")
        under == FindBy(totalsMarket.outcomes, "name", "Under")
        line == over.point
        hStats == FindBy(teams, "name", normalizeTeamName(game.home_team))
        aStats == FindBy(teams, "name", normalizeTeamName(game.away_team))
        both == hStats # NotFound /\ aStats # NotFound
        projected == IF both
                     THEN LET hAvgTotal == NumAdd(hStats.avgPointsFor, hStats.avgPointsAgainst)
                              aAvgTotal == NumAdd(aStats.avgPointsFor, aStats.avgPointsAgainst)
                          IN  NumMul(NumDiv(NumAdd(hAvgTotal, aAvgTotal), Int2Num(4)),
                                     Int2Num(2))
                     ELSE Zero
        modelEdge == IF both THEN NumSub(projected, line) ELSE Zero
        modelPick == IF both /\ NumLt(modelEdge, NumNeg(margin)) THEN "UNDER"
                     ELSE IF both /\ NumGt(modelEdge, margin) THEN "OVER"
                     ELSE "NONE"
        deviation == NumSub(line, currentLeagueAvg(matches))
        reversionPick == IF NumLt(deviation, Int2Num(-ReversionThreshold)) THEN "OVER"
                         ELSE IF NumGt(deviation, Int2Num(ReversionThreshold)) THEN "UNDER"
                         ELSE "NONE"
        combinedFG == IF both
                      THEN NumDiv(NumAdd(hStats.avgFG_Pct, aStats.avgFG_Pct), Int2Num(2))
                      ELSE Zero
        efficiencyPick == IF both /\ NumGt(combinedFG, threshold) THEN "OVER" ELSE "NONE"
    IN  IF totalsMarket = NotFound THEN NotFound
        ELSE IF over = NotFound \/ under = NotFound THEN NotFound
        ELSE IF "point" \notin DOMAIN over THEN NotFound
        ELSE IF ~Truthy(over.point) THEN NotFound
        ELSE IF modelPick = "NONE" /\ reversionPick = "NONE" /\ efficiencyPick = "NONE"
        THEN NotFound
        ELSE [ id |-> game.id, home |-> game.home_team, away |-> game.away_team,
               line |-> line, projected |-> projected, modelPick |-> modelPick,
               modelEdge |-> NumAbs(modelEdge), reversionPick |-> reversionPick,
               efficiencyPick |-> efficiencyPick, combinedFG |-> combinedFG,
               overPrice |-> over.price, underPrice |-> under.price ]

\* getLiveValueBets(), over the values of the render it runs in
getLiveValueBets(games, teams, matches, margin, threshold, filter) ==
    LET mapped == [k \in DOMAIN games |->
                      liveValueBet(games[k], teams, matches, margin, threshold)]
        Keep(bet) ==
            /\ bet # NotFound
            /\ IF filter = "MODEL" THEN bet.modelPick # "NONE"
               ELSE IF filter = "REVERSION" THEN bet.reversionPick # "NONE"
               ELSE IF filter = "HIGH_EFFICIENCY" THEN bet.efficiencyPick # "NONE"
               ELSE TRUE
    IN  SelectSeq(mapped, Keep)

\* getLiveValueBets() in a render with the given props and state
liveValueBetsOf(games, teams, defaults, panel, margin, threshold, filter) ==
    getLiveValueBets(games, teams, LiveMatches(defaults, panel), margin,
                     threshold, filter)

\* const liveValueBets = getLiveValueBets(), evaluated by every render
liveValueBets ==
    liveValueBetsOf(liveGames, defaultTeams, defaultMatches, backtestMatches,
                    valueMargin, efficiencyThreshold, liveFilter)

----------------------------------------------------------------------------
(* The panel's state machine *)

Strategies ==
    {"ALL_OVER", "ALL_UNDER", "LEAGUE_AVG_REVERSION", "TEAM_MODEL", "HIGH_EFFICIENCY_OVER"}

Wagers == {100, 50}

Margins == {Int2Num(5), Int2Num(6)}

Thresholds == {Frac(93, 2), Frac(91, 2)}

DateInputs == {<<>>, <<2025, 1, 11>>}

\* the configuration a run reads
Config ==
    [ strategy |-> strategy, wager |-> wager, valueMargin |-> valueMargin,
      selectedTeam |-> selectedTeam, startDate |-> startDate, endDate |-> endDate,
      efficiencyThreshold |-> efficiencyThreshold ]

\* variant: a dependency list without wager
MemoDepsWithoutWager(bm, cfg) ==
    <<bm, cfg.strategy, cfg.valueMargin, cfg.selectedTeam, cfg.startDate,
      cfg.endDate, cfg.efficiencyThreshold>>

\* the dependency list of useMemo(() => calculateBacktestROI(), [...]); its
\* last entry, currentTeamStats, is itself a memo of backtestMatches alone
\* and changes exactly when backtestMatches does

MemoDeps(bm, cfg) ==
    <<bm, cfg.strategy, cfg.valueMargin, cfg.selectedTeam, cfg.startDate,
      cfg.endDate, cfg.efficiencyThreshold, cfg.wager>>

\* the render that follows a state update: results is recomputed when a
\* dependency changed and kept otherwise
Render ==
    /\ results' = IF MemoDeps(backtestMatches', Config') # MemoDeps(backtestMatches, Config)
                  THEN calculateBacktestROI(backtestMatches', Config')
                  ELSE results
    /\ firstRun' = [firstRun EXCEPT !.ranOther = @ \/ Config' # firstRun.config]

Init ==
    /\ \E rawData \in SeasonFiles :
          /\ backtestMatches = processMatches(rawData)
          /\ defaultMatches = backtestMatches
          /\ defaultTeams = aggregateTeamStats(defaultMatches, rawData)
    /\ liveGames = <<>>
    /\ liveFilter = "ALL"
    /\ activeSeasonId = "2025"
    /\ loads = <<>>
    /\ isLoadingSeason = FALSE
    /\ effectPending = FALSE
    /\ requested = 1
    /\ written = IF Len(backtestMatches) > 0 THEN 1 ELSE 0
    /\ ProviderLoaded
    /\ strategy = "LEAGUE_AVG_REVERSION"
    /\ wager = 100
    /\ valueMargin = Int2Num(5)
    /\ selectedTeam = "ALL"
    /\ startDate = <<>>
    /\ endDate = <<>>
    /\ efficiencyThreshold = Frac(93, 2)
    /\ results = calculateBacktestROI(backtestMatches, Config)
    /\ firstRun = [config |-> Config, results |-> results, ranOther |-> FALSE]
    /\ call = NoCall

SetStrategy ==
    /\ \E s \in Strategies : strategy' = s
    /\ UNCHANGED <<backtestMatches, wager, valueMargin, selectedTeam,
                   startDate, endDate, efficiencyThreshold>>
    /\ UNCHANGED outsidePanel
    /\ Render

SetWager ==
    /\ \E w \in Wagers : wager' = w
    /\ UNCHANGED <<backtestMatches, strategy, valueMargin, selectedTeam,
                   startDate, endDate, efficiencyThreshold>>
    /\ UNCHANGED outsidePanel
    /\ Render

SetValueMargin ==
    /\ strategy \in {"TEAM_MODEL", "LEAGUE_AVG_REVERSION"}
    /\ \E v \in Margins : valueMargin' = v
    /\ UNCHANGED <<backtestMatches, strategy, wager, selectedTeam,
                   startDate, endDate, efficiencyThreshold>>
    /\ UNCHANGED outsidePanel
    /\ Render

SetSelectedTeam ==
    /\ \E t \in {"ALL"} \cup TeamsOf(backtestMatches) : selectedTeam' = t
    /\ UNCHANGED <<backtestMatches, strategy, wager, valueMargin,
                   startDate, endDate, efficiencyThreshold>>
    /\ UNCHANGED outsidePanel
    /\ Render

SetStartDate ==
    /\ \E d \in DateInputs : startDate' = d
    /\ UNCHANGED <<backtestMatches, strategy, wager, valueMargin,
                   selectedTeam, endDate, efficiencyThreshold>>
    /\ UNCHANGED outsidePanel
    /\ Render

SetEndDate ==
    /\ \E d \in DateInputs : endDate' = d
    /\ UNCHANGED <<backtestMatches, strategy, wager, valueMargin,
                   selectedTeam, startDate, efficiencyThreshold>>
    /\ UNCHANGED outsidePanel
    /\ Render

SetEfficiencyThreshold ==
    /\ strategy = "HIGH_EFFICIENCY_OVER"
    /\ \E e \in Thresholds : efficiencyThreshold' = e
    /\ UNCHANGED <<backtestMatches, strategy, wager, valueMargin,
                   selectedTeam, startDate, endDate>>
    /\ UNCHANGED outsidePanel
    /\ Render

Next ==
    \/ SetStrategy
    \/ SetWager
    \/ SetValueMargin
    \/ SetSelectedTeam
    \/ SetStartDate
    \/ SetEndDate
    \/ SetEfficiencyThreshold

Spec == Init /\ [][Next]_vars

----------------------------------------------------------------------------
(* The utils functions, called one at a time over raw datasets *)

panelVars == <<backtestMatches, strategy, wager, valueMargin, selectedTeam,
               startDate, endDate, efficiencyThreshold, results, firstRun>>

\* the panel as mounted over the matches it is given, untouched since
PanelMounted(matches) ==
    /\ backtestMatches = matches
    /\ strategy = "LEAGUE_AVG_REVERSION"
    /\ wager = 100
    /\ valueMargin = Int2Num(5)
    /\ selectedTeam = "ALL"
    /\ startDate = <<>>
    /\ endDate = <<>>
    /\ efficiencyThreshold = Frac(93, 2)
    /\ results = calculateBacktestROI(backtestMatches, Config)
    /\ firstRun = [config |-> Config, results |-> results, ranOther |-> FALSE]

\* the texts handed to p: absent, empty, numeric, padded, signed, malformed
NumericTexts ==
    { Undefined, <<>>, Str115, <<"0">>, <<" ", "4", "2">>, <<"-", "7">>,
      <<"1", "2", "p", "x">>, <<"4", ".", "5">>, <<"a", "b", "c">>, <<"-">> }

\* the box-score lines handed to calculatePossessions
StatLines ==
    { NoStats,
      Box(<<"1", "0", "0">>, <<"4", "5">>),
      Box(<<"8", "8">>, Undefined),
      Box(<<"-">>, <<"4", "5">>),
      [turnovers |-> <<"a", "b", "c">>] }

\* the TeamStats handed to analyzeMatchup, in the fields it reads: values on
\* both sides of each threshold
MatchupTeams(name) ==
    { [ name |-> name, avgFGA |-> Int2Num(fga), avg3P_Pct |-> Int2Num(tp),
        avgFouls |-> Int2Num(w[1]), avgFTM |-> Int2Num(w[2]),
        avgPointsFor |-> Int2Num(pf), avgPointsAgainst |-> Int2Num(pa) ] :
      fga \in {87, 88}, tp \in {30, 32, 33}, w \in {<<20, 17>>, <<21, 18>>},
      pf \in {115, 116}, pa \in {107, 108, 116} }

\* no season loaded, no live game, no load awaited
LiveIdle ==
    /\ defaultMatches = <<>>
    /\ defaultTeams = <<>>
    /\ liveGames = <<>>
    /\ liveFilter = "ALL"
    /\ activeSeasonId = "2025"
    /\ loads = <<>>
    /\ isLoadingSeason = FALSE
    /\ effectPending = FALSE
    /\ requested = 0
    /\ written = 0

UtilsInit == PanelMounted(<<>>) /\ LiveIdle /\ ProviderLoaded /\ call = NoCall

CallP ==
    /\ call = NoCall
    /\ \E val \in NumericTexts : call' = [fn |-> "p", val |-> val, ret |-> p(val)]
    /\ UNCHANGED <<panelVars, liveVars, providerVars>>

CallCalculatePossessions ==
    /\ call = NoCall
    /\ \E stats \in StatLines :
          call' = [fn |-> "calculatePossessions", stats |-> stats,
                   ret |-> calculatePossessions(stats)]
    /\ UNCHANGED <<panelVars, liveVars, providerVars>>

\* processMatches maps rawData into a new array and sorts that array: rawData
\* itself is only read
CallCalculateTS ==
    /\ call = NoCall
    /\ \E points \in {Zero, Int2Num(90)}, stats \in StatLines :
          call' = [fn |-> "calculateTS", points |-> points, stats |-> stats,
                   ret |-> calculateTS(points, stats)]
    /\ UNCHANGED <<panelVars, liveVars, providerVars>>

CallProcessMatches ==
    /\ call = NoCall
    /\ \E rawData \in RawDatasets :
          call' = [fn |-> "processMatches", rawData |-> rawData,
                   ret |-> processMatches(rawData), rawDataAfter |-> rawData]
    /\ UNCHANGED <<panelVars, liveVars, providerVars>>

CallAggregateTeamStats ==
    /\ call = NoCall
    /\ \E rawData \in RawDatasets :
          call' = [fn |-> "aggregateTeamStats", rawData |-> rawData,
                   ret |-> aggregateTeamStats(processMatches(rawData), rawData)]
    /\ UNCHANGED <<panelVars, liveVars, providerVars>>

\* the insights of a match of the processed collection, against that collection
CallGenerateMatchInsights ==
    /\ call = NoCall
    /\ \E rawData \in RawDatasets :
          LET allMatches == processMatches(rawData)
          IN  \E i \in 1..Len(allMatches) :
                call' = [fn |-> "generateMatchInsights", rawData |-> rawData,
                         match |-> allMatches[i], allMatches |-> allMatches,
                         ret |-> generateMatchInsights(allMatches[i], allMatches)]
    /\ UNCHANGED <<panelVars, liveVars, providerVars>>

CallAnalyzeMatchup ==
    /\ call = NoCall
    /\ \E t1 \in MatchupTeams("Boston Celtics"), t2 \in MatchupTeams("Denver Nuggets") :
          call' = [fn |-> "analyzeMatchup", t1 |-> t1, t2 |-> t2,
                   ret |-> analyzeMatchup(t1, t2)]
    /\ UNCHANGED <<panelVars, liveVars, providerVars>>

CallCalculateMarketInsights ==
    /\ call = NoCall
    /\ \E rawData \in RawDatasets :
          LET matches == processMatches(rawData)
          IN  \E ret \in calculateMarketInsights(matches) :
                call' = [fn |-> "calculateMarketInsights", matches |-> matches,
                         ret |-> ret]
    /\ UNCHANGED <<panelVars, liveVars, providerVars>>

Return ==
    /\ call # NoCall
    /\ call' = NoCall
    /\ UNCHANGED <<panelVars, liveVars, providerVars>>

UtilsNext ==
    \/ CallP
    \/ CallCalculatePossessions
    \/ CallCalculateTS
    \/ CallProcessMatches
    \/ CallAggregateTeamStats
    \/ CallGenerateMatchInsights
    \/ CallAnalyzeMatchup
    \/ CallCalculateMarketInsights
    \/ Return

UtilsSpec == UtilsInit /\ [][UtilsNext]_vars

----------------------------------------------------------------------------
(* The season selector and the live evaluator *)

\* one game of the odds feed: its first bookmaker's markets
LiveGame(id, home, away, markets) ==
    [ id |-> id, home_team |-> home, away_team |-> away,
      bookmakers |-> <<[title |-> "DraftKings", markets |-> markets]>> ]

\* a totals market quoting the same point for Over and Under
Totals(point) ==
    [ key |-> "totals",
      outcomes |-> << [name |-> "Over", price |-> Frac(191, 100), point |-> point],
                      [name |-> "Under", price |-> Frac(191, 100), point |-> point] >> ]

Moneyline ==
    [ key |-> "h2h",
      outcomes |-> << [name |-> "Boston Celtics", price |-> Frac(18, 10)],
                      [name |-> "Denver Nuggets", price |-> Int2Num(2)] >> ]

\* the feeds: none, a known pair, a pair under an alias with a game lacking
\* totals, and a game of a team without aggregates
LiveFeeds ==
    { <<>>,
      << LiveGame("g1", "Boston Celtics", "Denver Nuggets", <<Moneyline, Totals(Int2Num(236))>>) >>,
      << LiveGame("g2", "LA Clippers", "Los Angeles Clippers", <<Totals(Int2Num(224))>>),
         LiveGame("g3", "Boston Celtics", "Denver Nuggets", <<Moneyline>>) >>,
      << LiveGame("g4", "Miami Heat", "Denver Nuggets", <<Totals(Int2Num(245))>>),
         LiveGame("g1", "Boston Celtics", "Denver Nuggets", <<Totals(Int2Num(236))>>) >> }

\* the files a season's path can serve (an empty or failed response gives
\* no match)
ServedFiles == FilesUpTo(<<Catalogue[1], Catalogue[4]>>, MaxMatches)

LiveFilters == {"ALL", "MODEL", "REVERSION", "HIGH_EFFICIENCY"}

SeasonIds == {"2025", "2024"}

\* the file behind each season's path
SeasonFile(id) == IF id = "2025" THEN <<Catalogue[1]>> ELSE <<Catalogue[4]>>

\* what the fetch of a season's path and the parse of its body come to
Responses == {"ok", "notOk", "networkError", "parseError"}

\* a promise resolved to v
Fulfilled(v) == [state |-> "fulfilled", value |-> v]

\* variant: without the try/catch
getSeasonDataUncaught(seasonId, response) ==
    IF seasonId \notin SeasonIds THEN Fulfilled(<<>>)
    ELSE IF response = "ok" THEN Fulfilled(processMatches(SeasonFile(seasonId)))
    ELSE [state |-> "rejected", value |-> response]

\* getSeasonData(seasonId), by what the fetch comes to: the promise it returns
getSeasonData(seasonId, response) ==
    IF seasonId \notin SeasonIds THEN Fulfilled(<<>>)
    ELSE IF response = "ok" THEN Fulfilled(processMatches(SeasonFile(seasonId)))
    ELSE Fulfilled(<<>>)

\* the simulator mounted over the default season, its effect awaiting the
\* first getSeasonData
LiveInit ==
    /\ \E rawData \in ServedFiles :
          /\ defaultMatches = processMatches(rawData)
          /\ defaultTeams = aggregateTeamStats(defaultMatches, rawData)
    /\ liveGames \in LiveFeeds
    /\ liveFilter = "ALL"
    /\ activeSeasonId = "2025"
    /\ loads = <<[req |-> 1, season |-> "2025"]>>
    /\ isLoadingSeason = TRUE
    /\ effectPending = FALSE
    /\ requested = 1
    /\ written = 0
    /\ PanelMounted(defaultMatches)
    /\ ProviderLoaded
    /\ call = NoCall

\* switchSeason from its start to its await: setIsLoadingSeason(true) and
\* the call of getSeasonData(activeSeasonId)
StartedLoads(season) ==
    Append(loads, [req |-> requested + 1, season |-> season])

\* onChange of the season selector, which the last render disabled when
\* isLoadingSeason was set. A scheduled effect that has not run yet runs
\* before the render of the new selection.
SelectSeason ==
    /\ ~isLoadingSeason
    /\ requested + (IF effectPending THEN 1 ELSE 0) < MaxRequests
    /\ \E id \in SeasonIds \ {activeSeasonId} : activeSeasonId' = id
    /\ IF effectPending
       THEN /\ loads' = StartedLoads(activeSeasonId)
            /\ requested' = requested + 1
            /\ isLoadingSeason' = TRUE
       ELSE UNCHANGED <<loads, requested, isLoadingSeason>>
    /\ effectPending' = TRUE
    /\ UNCHANGED <<defaultMatches, defaultTeams, liveGames, liveFilter, written, call>>
    /\ UNCHANGED <<panelVars, providerVars>>

\* the effect of [activeSeasonId] runs switchSeason up to its await
SwitchSeasonStarts ==
    /\ effectPending
    /\ effectPending' = FALSE
    /\ loads' = StartedLoads(activeSeasonId)
    /\ requested' = requested + 1
    /\ isLoadingSeason' = TRUE
    /\ UNCHANGED <<defaultMatches, defaultTeams, liveGames, liveFilter,
                   activeSeasonId, written, call>>
    /\ UNCHANGED <<panelVars, providerVars>>

\* an awaited getSeasonData settles and switchSeason runs to its end; a
\* rejection would end it at the await
LoadResolves ==
    /\ \E k \in DOMAIN loads, response \in Responses :
          LET ret == getSeasonData(loads[k].season, response)
              data == ret.value
              wrote == ret.state = "fulfilled" /\ Len(data) > 0
          IN  /\ call' = [fn |-> "getSeasonData", seasonId |-> loads[k].season,
                          response |-> response, ret |-> ret]
              /\ loads' = SubSeq(loads, 1, k - 1) \o SubSeq(loads, k + 1, Len(loads))
              /\ backtestMatches' = IF wrote THEN data ELSE backtestMatches
              /\ written' = IF wrote THEN loads[k].req ELSE written
              /\ isLoadingSeason' = IF ret.state = "fulfilled" THEN FALSE
                                    ELSE isLoadingSeason
    /\ UNCHANGED <<strategy, wager, valueMargin, selectedTeam, startDate, endDate,
                   efficiencyThreshold>>
    /\ UNCHANGED <<defaultMatches, defaultTeams, liveGames, liveFilter,
                   activeSeasonId, effectPending, requested>>
    /\ UNCHANGED providerVars
    /\ Render

SetLiveFilter ==
    /\ \E f \in LiveFilters : liveFilter' = f
    /\ UNCHANGED <<defaultMatches, defaultTeams, liveGames, activeSeasonId, loads,
                   isLoadingSeason, effectPending, requested, written, call>>
    /\ UNCHANGED <<panelVars, providerVars>>

LiveNext ==
    \/ SelectSeason
    \/ SwitchSeasonStarts
    \/ LoadResolves
    \/ SetLiveFilter
    \/ SetValueMargin

LiveSpec == LiveInit /\ [][LiveNext]_vars

----------------------------------------------------------------------------
(* DataContext: the data provider *)

\* the fetchLiveOdds calls a behaviour may have awaiting the API at once
MaxOddsCalls == 1

\* the fallback line of simulateLineMove
FallbackLine == 220

\* null, the line of a game that quotes no total
Null == [null |-> TRUE]

\* getLineFromGame: market?.outcomes?.[0]?.point || null of the first
\* bookmaker's totals market
getLineFromGame(game) ==
    LET market == IF game.bookmakers = <<>> THEN NotFound
                  ELSE FindBy(game.bookmakers[1].markets, "key", "totals")
    IN  IF market = NotFound THEN Null
        ELSE IF market.outcomes = <<>> THEN Null
        ELSE IF "point" \notin DOMAIN market.outcomes[1] THEN Null
        ELSE IF Truthy(market.outcomes[1].point) THEN market.outcomes[1].point
        ELSE Null

\* new Map(games.map(g => [g.id, g])).get(id): the last game of that id
GameOf(games, id) ==
    IF \E k \in DOMAIN games : games[k].id = id
    THEN games[CHOOSE k \in DOMAIN games :
                   games[k].id = id /\ \A j \in (k + 1)..Len(games) : games[j].id # id]
    ELSE NotFound

\* newLine !== null && oldLine !== null && newLine !== oldLine
LineChanged(newLine, oldLine) ==
    newLine # Null /\ oldLine # Null /\ ~NumEq(newLine, oldLine)

\* the LineMovement fetchLiveOdds builds, without its timestamp
Movement(id, oldLine, newLine) ==
    [ gameId |-> id, oldLine |-> oldLine, newLine |-> newLine,
      direction |-> IF NumGt(newLine, oldLine) THEN "UP" ELSE "DOWN" ]

\* newGames.forEach(newGame => ...) of fetchLiveOdds, from the movements acc
RECURSIVE RecordMovements(_, _, _)
RecordMovements(newGames, oldGames, acc) ==
    IF newGames = <<>> THEN acc
    ELSE LET newGame == Head(newGames)
             oldGame == GameOf(oldGames, newGame.id)
             moved == /\ oldGame # NotFound
                      /\ LineChanged(getLineFromGame(newGame), getLineFromGame(oldGame))
         IN  RecordMovements(Tail(newGames), oldGames,
                 IF moved
                 THEN [g \in DOMAIN acc \cup {newGame.id} |->
                          IF g = newGame.id
                          THEN Movement(newGame.id, getLineFromGame(oldGame),
                                        getLineFromGame(newGame))
                          ELSE acc[g]]
                 ELSE acc)

\* the fakeMovement of simulateLineMove for the game targetGame
fakeMovement(targetGame) ==
    LET line == getLineFromGame(targetGame)
        currentLine == IF line = Null THEN Int2Num(FallbackLine) ELSE line
    IN  [ gameId |-> targetGame.id,
          oldLine |-> NumSub(currentLine, Frac(3, 2)),
          newLine |-> currentLine,
          direction |-> "UP" ]

\* the answers of the odds API
OddsFeeds ==
    { << LiveGame("g1", "Boston Celtics", "Denver Nuggets", <<Moneyline, Totals(Int2Num(236))>>) >>,
      << LiveGame("g1", "Boston Celtics", "Denver Nuggets", <<Totals(Int2Num(238))>>),
         LiveGame("g2", "Miami Heat", "Denver Nuggets", <<Totals(Int2Num(224))>>) >>,
      << LiveGame("g2", "Miami Heat", "Denver Nuggets", <<Totals(Int2Num(222))>>),
         LiveGame("g1", "Boston Celtics", "Denver Nuggets", <<Moneyline>>) >>,
      << LiveGame("g1", "Boston Celtics", "Denver Nuggets", <<Totals(Zero)>>) >> }

\* a cached item that JSON.parse rejects
Corrupt == [corrupt |-> TRUE]

\* what localStorage holds after fetchLiveOdds stored newGames and
\* newMovements
Stored(newGames, newMovements) ==
    [cache |-> [data |-> newGames], movements |-> newMovements]

\* what localStorage can hold at mount: nothing, an item that does not
\* parse, or what an earlier session stored after its refreshes
StoredAtMount ==
    { [cache |-> NoItem, movements |-> NoItem],
      [cache |-> Corrupt, movements |-> NoItem] }
    \cup { Stored(f, NoMovements) : f \in OddsFeeds }
    \cup { Stored(f2, RecordMovements(f2, f1, NoMovements)) : f1, f2 \in OddsFeeds }

\* the files the default season's path can serve
HistoricalFiles == { <<>>, <<Catalogue[1]>>, <<Catalogue[4], Catalogue[1]>> }

\* the provider at mount: loadData awaits the historical fetch
ProviderInit ==
    /\ PanelMounted(<<>>)
    /\ LiveIdle
    /\ lineMovements = NoMovements
    /\ loading = TRUE
    /\ loadData = "fetching"
    /\ oddsCalls = <<>>
    /\ storage \in StoredAtMount
    /\ call = NoCall

\* variant: loading is cleared at the end of the try block, not in finally
LoadingUnlessThrew(now, threw) == IF threw THEN now ELSE FALSE

\* finally { loading: false }, whether or not the body threw
LoadingAfterLoadData(now, threw) == FALSE

\* fetchLiveOdds up to its await, as called with forceRefresh by caller from a
\* render whose state holds games and movements
OddsCallStarted(caller, games, movements) ==
    Append(oddsCalls, [caller |-> caller, liveGames |-> games,
                       lineMovements |-> movements])

\* the historical fetch of loadData settles; loadData runs on to the await
\* inside fetchLiveOdds(false), or to its end when the cache serves the odds
\* or the fetch, the parse or the processing threw
HistoricalResolves ==
    /\ loadData = "fetching"
    /\ \E response \in Responses, rawData \in HistoricalFiles :
          IF response # "ok"
          THEN /\ loadData' = "failed"
               /\ loading' = LoadingAfterLoadData(loading, TRUE)
               /\ UNCHANGED <<defaultMatches, defaultTeams, liveGames,
                              lineMovements, oddsCalls, storage>>
          ELSE /\ defaultMatches' = processMatches(rawData)
               /\ defaultTeams' = aggregateTeamStats(defaultMatches', rawData)
               /\ IF storage.cache \notin {NoItem, Corrupt}
                  THEN /\ liveGames' = storage.cache.data
                       /\ lineMovements' = IF storage.movements = NoItem
                                           THEN NoMovements
                                           ELSE storage.movements
                       /\ loadData' = "done"
                       /\ loading' = LoadingAfterLoadData(loading, FALSE)
                       /\ UNCHANGED <<oddsCalls, storage>>
                  ELSE /\ storage' = [storage EXCEPT !.cache = NoItem]
                       /\ oddsCalls' = OddsCallStarted("loadData", <<>>, NoMovements)
                       /\ loadData' = "odds"
                       /\ UNCHANGED <<liveGames, lineMovements, loading>>
    /\ UNCHANGED <<liveFilter, activeSeasonId, loads, isLoadingSeason,
                   effectPending, requested, written, call>>
    /\ UNCHANGED panelVars

\* the Refresh Odds button, shown once loading is over and disabled while a
\* refresh is awaited: refreshLiveOdds runs fetchLiveOdds(true) to its await
RefreshLiveOdds ==
    /\ ~loading
    /\ Len(oddsCalls) < MaxOddsCalls
    /\ oddsCalls' = OddsCallStarted("refreshLiveOdds", liveGames, lineMovements)
    /\ UNCHANGED <<lineMovements, loading, loadData, storage>>
    /\ UNCHANGED <<liveVars, panelVars, call>>

\* the odds API answers an awaited fetchLiveOdds, which runs to its end; the
\* call made by loadData then runs loadData to its end
OddsResolves ==
    /\ \E k \in DOMAIN oddsCalls, response \in {"ok", "notOk", "networkError"},
          newGames \in OddsFeeds :
          LET c == oddsCalls[k]
              newMovements == RecordMovements(newGames, c.liveGames, c.lineMovements)
          IN  /\ call' = [fn |-> "fetchLiveOdds", caller |-> c.caller,
                          response |-> response, newGames |-> newGames]
              /\ oddsCalls' = SubSeq(oddsCalls, 1, k - 1)
                                  \o SubSeq(oddsCalls, k + 1, Len(oddsCalls))
              /\ IF response = "ok"
                 THEN /\ liveGames' = newGames
                      /\ lineMovements' = newMovements
                      /\ storage' = Stored(newGames, newMovements)
                 ELSE UNCHANGED <<liveGames, lineMovements, storage>>
              /\ IF c.caller = "loadData"
                 THEN /\ loadData' = "done"
                      /\ loading' = LoadingAfterLoadData(loading, FALSE)
                 ELSE UNCHANGED <<loadData, loading>>
    /\ UNCHANGED <<defaultMatches, defaultTeams, liveFilter, activeSeasonId, loads,
                   isLoadingSeason, effectPending, requested, written>>
    /\ UNCHANGED panelVars

\* simulateLineMove(): nothing without a live game, else a movement of the
\* first game
SimulateLineMove ==
    /\ Len(liveGames) > 0
    /\ lineMovements' =
          [g \in DOMAIN lineMovements \cup {liveGames[1].id} |->
              IF g = liveGames[1].id THEN fakeMovement(liveGames[1])
              ELSE lineMovements[g]]
    /\ UNCHANGED <<loading, loadData, oddsCalls, storage>>
    /\ UNCHANGED <<liveVars, panelVars, call>>

ProviderNext ==
    \/ HistoricalResolves
    \/ RefreshLiveOdds
    \/ OddsResolves
    \/ SimulateLineMove

ProviderSpec == ProviderInit /\ [][ProviderNext]_vars

\* every awaited fetch settles
ProviderFairSpec ==
    ProviderSpec /\ WF_vars(HistoricalResolves) /\ WF_vars(OddsResolves)

----------------------------------------------------------------------------
(* Vocabulary of the properties *)

\* the matches the displayed run evaluated, in evaluation order
Filtered == filteredMatches(backtestMatches, Config)

Logs == results.historyLogs

Matches == {backtestMatches[i] : i \in 1..Len(backtestMatches)}

FilteredSet == {Filtered[i] : i \in 1..Len(Filtered)}

LogSet == {Logs[k] : k \in 1..Len(Logs)}

\* the side the displayed run bet on match m, "NONE" when it placed no bet
LoggedPick(m) ==
    IF \E e \in LogSet : e.id = m.id
    THEN (CHOOSE e \in LogSet : e.id = m.id).pick
    ELSE "NONE"

\* the match a log entry is about
MatchOf(e) == CHOOSE m \in Matches : m.id = e.id

\* the mean totalScore of a set of matches with distinct ids
MeanTotal(S) ==
    NumDiv(NumSum([m \in S |-> m.totalScore], S), Int2Num(Cardinality(S)))

StatsNow == currentTeamStats(backtestMatches)

BothStats(m) ==
    /\ normalizeTeamName(m.homeTeam) \in TeamsOf(backtestMatches)
    /\ normalizeTeamName(m.awayTeam) \in TeamsOf(backtestMatches)

\* (home.avgFG_Pct + away.avgFG_Pct) / 2 of the stats found for m's teams
CombinedFG(m) ==
    NumDiv(NumAdd(StatsNow[normalizeTeamName(m.homeTeam)].avgFG_Pct,
                  StatsNow[normalizeTeamName(m.awayTeam)].avgFG_Pct), Int2Num(2))

\* the team-trends projection of m: the four averages summed, / 4 * 2
Projection(m) ==
    LET h == StatsNow[normalizeTeamName(m.homeTeam)]
        a == StatsNow[normalizeTeamName(m.awayTeam)]
    IN  NumDiv(NumAdd(NumAdd(h.avgPointsFor, h.avgPointsAgainst),
                      NumAdd(a.avgPointsFor, a.avgPointsAgainst)), Int2Num(2))

----------------------------------------------------------------------------
(* Properties *)

\* C1 (as specified): every ProcessedMatch m has totalScore = homeScore +
\* awayScore, and result is OVER iff totalScore > line, UNDER iff
\* totalScore < line, PUSH iff totalScore equals line exactly.
C1_ProcessedMatchInvariant ==
    \A m \in Matches :
        /\ NumEq(m.totalScore, NumAdd(m.homeScore, m.awayScore))
        /\ (m.result = "OVER") <=> NumGt(m.totalScore, m.line)
        /\ (m.result = "UNDER") <=> NumLt(m.totalScore, m.line)
        /\ (m.result = "PUSH") <=> NumEq(m.totalScore, m.line)

\* C2: every placed bet is settled by the side's direction (Over wins iff
\* total > line and loses iff total < line, Under the other way round),
\* total = line is a PUSH with profit 0, a WIN is worth wager * (odds - 1) at
\* the odds of the side that was bet, a LOSS is worth minus the wager, and
\* the run's profit is the sum of these amounts.
C2_Settlement ==
    /\ \A e \in LogSet :
        LET m == MatchOf(e)
            sideOdds == IF e.pick = "OVER" THEN m.overOdds ELSE m.underOdds
        IN  /\ e.pick \in {"OVER", "UNDER"}
            /\ e.result \in {"WIN", "LOSS", "PUSH"}
            /\ e.pick = "OVER" =>
                 /\ (e.result = "WIN") <=> NumGt(m.totalScore, m.line)
                 /\ (e.result = "LOSS") <=> NumLt(m.totalScore, m.line)
            /\ e.pick = "UNDER" =>
                 /\ (e.result = "WIN") <=> NumLt(m.totalScore, m.line)
                 /\ (e.result = "LOSS") <=> NumGt(m.totalScore, m.line)
            /\ NumEq(m.totalScore, m.line) => e.result = "PUSH" /\ e.pnl = Zero
            /\ e.result = "WIN" =>
                 e.pnl = NumMul(Int2Num(wager), NumSub(sideOdds, Int2Num(1)))
            /\ e.result = "LOSS" => e.pnl = Int2Num(-wager)
            /\ e.result = "PUSH" => e.pnl = Zero
    /\ results.profit = NumSum([k \in 1..Len(Logs) |-> Logs[k].pnl], 1..Len(Logs))

\* C2 witness: one run holds an Over bet won at over odds that differ from
\* the under odds, and a pushed bet.
C2_Witness ==
    /\ \E e \in LogSet :
          /\ e.pick = "OVER" /\ e.result = "WIN"
          /\ MatchOf(e).overOdds # MatchOf(e).underOdds
    /\ \E e \in LogSet : e.result = "PUSH" /\ NumEq(e.score, e.line)

\* C3: roi = profit / (totalBets * wager) * 100 when a bet was placed and 0
\* when none was; one win at odds 1.91 and one loss at wager 100 give
\* profit -9 and roi -4.5.
C3_Roi ==
    /\ results.totalBets > 0 =>
          NumMul(results.roi, Int2Num(results.totalBets * wager))
              = NumMul(results.profit, Int2Num(100))
    /\ results.totalBets = 0 => results.roi = Zero
    /\ ( /\ wager = 100
         /\ results.wins = 1 /\ results.losses = 1 /\ results.pushes = 0
         /\ \E e \in LogSet :
               /\ e.result = "WIN"
               /\ (IF e.pick = "OVER" THEN MatchOf(e).overOdds
                                      ELSE MatchOf(e).underOdds) = Frac(191, 100) )
       => results.profit = Int2Num(-9) /\ results.roi = Frac(-9, 2)

\* C3 witness: a run of exactly one win at 1.91 and one loss, wager 100.
C3_Witness ==
    /\ wager = 100
    /\ results.wins = 1 /\ results.losses = 1 /\ results.totalBets = 2
    /\ results.profit = Int2Num(-9)
    /\ results.roi = Frac(-9, 2)

\* C4: under league-average reversion a match is bet Under iff
\* line > leagueAvg + margin, Over iff line < leagueAvg - margin, and not at
\* all when leagueAvg - margin <= line <= leagueAvg + margin; with average
\* 230 and margin 5, line 236 is Under, 224 is Over and 230 is no bet.
C4_Reversion ==
    strategy = "LEAGUE_AVG_REVERSION" =>
        \A m \in FilteredSet :
            LET hi == NumAdd(results.leagueAvg, valueMargin)
                lo == NumSub(results.leagueAvg, valueMargin)
            IN  /\ (LoggedPick(m) = "UNDER") <=> NumGt(m.line, hi)
                /\ (LoggedPick(m) = "OVER") <=> NumLt(m.line, lo)
                /\ (NumLe(lo, m.line) /\ NumLe(m.line, hi)) => LoggedPick(m) = "NONE"
                /\ (results.leagueAvg = Int2Num(230) /\ valueMargin = Int2Num(5)) =>
                      /\ m.line = Int2Num(236) => LoggedPick(m) = "UNDER"
                      /\ m.line = Int2Num(224) => LoggedPick(m) = "OVER"
                      /\ m.line = Int2Num(230) => LoggedPick(m) = "NONE"

\* C4 witness: average 230, margin 5, and the run bet Under on a line of
\* 236 and Over on a line of 224.
C4_Witness ==
    /\ strategy = "LEAGUE_AVG_REVERSION"
    /\ results.leagueAvg = Int2Num(230) /\ valueMargin = Int2Num(5)
    /\ \E m \in FilteredSet : m.line = Int2Num(236) /\ LoggedPick(m) = "UNDER"
    /\ \E m \in FilteredSet : m.line = Int2Num(224) /\ LoggedPick(m) = "OVER"

\* C5 (as specified): the league average of a run is the mean totalScore of
\* the matches that remain after the team and date filters.
C5_AverageOverFiltered ==
    Len(Filtered) > 0 => results.leagueAvg = MeanTotal(FilteredSet)

\* C5 (as implemented): the league average of a run is the mean totalScore of all
\* matches of the active dataset, whatever the team and date filters (230
\* when the dataset is empty), and it is this average the reversion
\* strategy compares each filtered match's line with.
C5_AverageOverDataset ==
    /\ results.leagueAvg =
          IF Matches = {} THEN Int2Num(DefaultLeagueAvg) ELSE MeanTotal(Matches)
    /\ (strategy = "LEAGUE_AVG_REVERSION" /\ Matches # {}) =>
          \A m \in FilteredSet :
              /\ (LoggedPick(m) = "UNDER")
                    <=> NumGt(m.line, NumAdd(MeanTotal(Matches), valueMargin))
              /\ (LoggedPick(m) = "OVER")
                    <=> NumLt(m.line, NumSub(MeanTotal(Matches), valueMargin))

\* C5 witness: a filter removed a match, the remaining matches' mean differs
\* from the league average, and the reversion run placed no bet on a line
\* that exceeds the remaining matches' mean by more than the margin.
C5_Witness ==
    /\ strategy = "LEAGUE_AVG_REVERSION"
    /\ 0 < Len(Filtered) /\ Len(Filtered) < Len(backtestMatches)
    /\ results.leagueAvg # MeanTotal(FilteredSet)
    /\ \E m \in FilteredSet :
          /\ NumGt(m.line, NumAdd(MeanTotal(FilteredSet), valueMargin))
          /\ LoggedPick(m) = "NONE"

C7_TeamModel ==
    strategy = "TEAM_MODEL" =>
        \A m \in FilteredSet :
            IF BothStats(m)
            THEN /\ (LoggedPick(m) = "OVER")
                       <=> NumGt(Projection(m), NumAdd(m.line, valueMargin))
                 /\ (LoggedPick(m) = "UNDER")
                       <=> NumLt(Projection(m), NumSub(m.line, valueMargin))
            ELSE LoggedPick(m) = "NONE"

\* C7 witness: a match without stats for one team is skipped and a match
\* evaluated after it is bet.
C7_Witness ==
    /\ strategy = "TEAM_MODEL"
    /\ \E i, j \in 1..Len(Filtered) :
          /\ i < j
          /\ ~BothStats(Filtered[i]) /\ LoggedPick(Filtered[i]) = "NONE"
          /\ LoggedPick(Filtered[j]) # "NONE"

\* C8: under Blind Over (Blind Under) every match that passes the filters
\* gets exactly one bet, on Over (Under): totalBets is the number of
\* filtered matches and no log entry carries the other side.
C8_Blind ==
    strategy \in {"ALL_OVER", "ALL_UNDER"} =>
        /\ results.totalBets = Len(Filtered)
        /\ Len(Logs) = Len(Filtered)
        /\ \A k \in 1..Len(Logs) :
              /\ Logs[k].id = Filtered[k].id
              /\ Logs[k].pick = (IF strategy = "ALL_OVER" THEN "OVER" ELSE "UNDER")

\* C8 witness: a Blind Under run over two filtered matches.
C8_Witness ==
    strategy = "ALL_UNDER" /\ Len(Filtered) >= 2 /\ results.totalBets = Len(Filtered)

\* C9: the displayed result is the run of the current configuration over
\* the current matches, and whenever the configuration is again that of the
\* first run the result, log order included, is again that of the first
\* run, whatever runs were made in between.
C9_Deterministic ==
    /\ results = calculateBacktestROI(backtestMatches, Config)
    /\ Config = firstRun.config => results = firstRun.results

\* C9 witness: back under the first configuration after a run under
\* another one, with bets in the log.
C9_Witness ==
    Config = firstRun.config /\ firstRun.ranOther /\ Len(Logs) >= 2

\* C10: every log entry is about a match that involves the selected team
\* (any match under ALL) and is dated within [startDate, endDate], both
\* bounds included and an unset bound not restricting; entries are in
\* date-descending order, at most one per match; a blind run logs every
\* such match.
C10_LogFilter ==
    LET Involved(m) ==
            selectedTeam = "ALL" \/ m.homeTeam = selectedTeam \/ m.awayTeam = selectedTeam
        InRange(m) ==
            /\ startDate # <<>> => NewDate(startDate) <= m.date
            /\ endDate # <<>> => m.date <= NewDate(endDate)
    IN  /\ \A e \in LogSet :
              \E m \in Matches :
                  m.id = e.id /\ m.date = e.date /\ Involved(m) /\ InRange(m)
        /\ \A k, l \in 1..Len(Logs) :
              /\ k < l => Logs[k].date >= Logs[l].date
              /\ k # l => Logs[k].id # Logs[l].id
        /\ strategy \in {"ALL_OVER", "ALL_UNDER"} =>
              \A m \in Matches :
                  (Involved(m) /\ InRange(m)) => \E e \in LogSet : e.id = m.id

\* C10 witness: both bounds set to the date of a logged match, another
\* match of the dataset left out.
C10_Witness ==
    /\ startDate # <<>> /\ endDate # <<>>
    /\ \E e \in LogSet : e.date = NewDate(startDate) /\ e.date = NewDate(endDate)
    /\ \E m \in Matches : \A e \in LogSet : e.id # m.id

----------------------------------------------------------------------------
(* Properties of the utils functions *)

\* the raw records of a dataset that name team t as home team or as away team
RecordsOf(rawData, t) ==
    {i \in 1..Len(rawData) : rawData[i].home_team = t \/ rawData[i].away_team = t}

\* C11 (as specified): every TeamStats t returned by aggregateTeamStats has
\* gamesPlayed equal to the number of raw records that name t as home team
\* or as away team, each record counted once.
C11_GamesPlayed ==
    call.fn = "aggregateTeamStats" =>
        \A k \in 1..Len(call.ret) :
            call.ret[k].gamesPlayed
                = Cardinality(RecordsOf(call.rawData, call.ret[k].name))

\* C11, away from its failing input: the count is right for every team of a
\* dataset in which no record names the same team on both sides.
C11_GamesPlayedDistinctSides ==
    (/\ call.fn = "aggregateTeamStats"
     /\ \A i \in 1..Len(call.rawData) :
           call.rawData[i].home_team # call.rawData[i].away_team) =>
        \A k \in 1..Len(call.ret) :
            call.ret[k].gamesPlayed
                = Cardinality(RecordsOf(call.rawData, call.ret[k].name))

\* the place of the record with a given id in a raw dataset
PlaceOf(rawData, id) == CHOOSE i \in 1..Len(rawData) : rawData[i].match_id = id

\* C12: processMatches returns exactly one ProcessedMatch per raw record,
\* ordered by date descending (no element is dated before its successor),
\* whatever the order of the input.
C12_OnePerRecordDateDescending ==
    call.fn = "processMatches" =>
        /\ Len(call.ret) = Len(call.rawData)
        /\ \A i \in 1..Len(call.rawData) :
              Cardinality({k \in 1..Len(call.ret) :
                             call.ret[k] = processMatch(call.rawData[i])}) = 1
        /\ \A k \in 1..Len(call.ret) - 1 : call.ret[k].date >= call.ret[k + 1].date

\* C12 witness: three records handed over oldest first come back newest first.
C12_Witness ==
    /\ call.fn = "processMatches"
    /\ Len(call.rawData) = 3
    /\ \A i \in 1..2 :
          NewDate(ReverseDate(call.rawData[i].date))
              < NewDate(ReverseDate(call.rawData[i + 1].date))
    /\ \A i \in 1..3 : call.ret[i].id = call.rawData[4 - i].match_id

StrictlyEarlier(match, allMatches) ==
    SelectSeq(allMatches, LAMBDA m : m.date < match.date)

\* C14: generateMatchInsights uses only matches dated strictly before the
\* target: every match of its relevant history is older than the target, and
\* the insights are those computed with every match of the target's date or
\* of a later date (the target itself included) taken out of the collection.
C14_StrictlyBefore ==
    call.fn = "generateMatchInsights" =>
        /\ \A i \in 1..Len(relevantHistory(call.match, call.allMatches)) :
              relevantHistory(call.match, call.allMatches)[i].date < call.match.date
        /\ call.ret = generateMatchInsights(call.match,
                          StrictlyEarlier(call.match, call.allMatches))

\* C14 witness: the collection holds another match of the target's date that
\* involves one of the target's teams, and an older one that is used.
C14_Witness ==
    /\ call.fn = "generateMatchInsights"
    /\ \E i \in 1..Len(call.allMatches) :
          /\ call.allMatches[i].id # call.match.id
          /\ call.allMatches[i].date = call.match.date
          /\ SharesTeam(call.allMatches[i], call.match)
    /\ Len(relevantHistory(call.match, call.allMatches)) = 1
    /\ call.ret.mean15 = relevantHistory(call.match, call.allMatches)[1].totalScore

\* C15 (as specified): with fewer than two matches in the relevant history
\* of the target, generateMatchInsights returns sd15 = 0.
C15_SdZeroBelowTwo ==
    (/\ call.fn = "generateMatchInsights"
     /\ Len(relevantHistory(call.match, call.allMatches)) < 2) =>
        call.ret.sd15 = Zero

\* C15, away from its failing input: sd15 = 0 with an empty relevant history.
C15_SdZeroWithoutHistory ==
    (/\ call.fn = "generateMatchInsights"
     /\ Len(relevantHistory(call.match, call.allMatches)) = 0) =>
        call.ret.sd15 = Zero

\* the types of the insights a call of analyzeMatchup returned
SignalTypes == {call.ret[k].type : k \in 1..Len(call.ret)}

\* C16: analyzeMatchup emits the shooting-drought signal iff both teams'
\* avg3P_Pct are strictly below 33; (30, 32) fires it, (33, 32) does not.
C16_ShootingDrought ==
    call.fn = "analyzeMatchup" =>
        /\ ("BRICK" \in SignalTypes)
              <=> (/\ NumLt(call.t1.avg3P_Pct, Int2Num(33))
                   /\ NumLt(call.t2.avg3P_Pct, Int2Num(33)))
        /\ (call.t1.avg3P_Pct = Int2Num(30) /\ call.t2.avg3P_Pct = Int2Num(32))
              => "BRICK" \in SignalTypes
        /\ (call.t1.avg3P_Pct = Int2Num(33) /\ call.t2.avg3P_Pct = Int2Num(32))
              => "BRICK" \notin SignalTypes

\* C16 witness: the pair (30, 32) got the signal.
C16_Witness ==
    /\ call.fn = "analyzeMatchup"
    /\ call.t1.avg3P_Pct = Int2Num(30) /\ call.t2.avg3P_Pct = Int2Num(32)
    /\ Cardinality({k \in 1..Len(call.ret) : call.ret[k].type = "BRICK"}) = 1

\* C17: analyzeMatchup returns at most five signals, because the
\* defensive-grind signal never comes with a mismatch signal of either
\* direction.
C17_AtMostFiveSignals ==
    call.fn = "analyzeMatchup" =>
        /\ Len(call.ret) <= 5
        /\ ~("DEFENSE" \in SignalTypes /\ "MISMATCH" \in SignalTypes)

\* C17 witness: five signals, both mismatch directions among them.
C17_Witness ==
    /\ call.fn = "analyzeMatchup"
    /\ Len(call.ret) = 5
    /\ Cardinality({k \in 1..Len(call.ret) : call.ret[k].type = "MISMATCH"}) = 2

\* x is the entry of r with the greatest key, the first of those when
\* several share it
FirstGreatest(x, r, keys) ==
    \E i \in DOMAIN r :
        /\ r[i] = x
        /\ \A j \in DOMAIN r : NumLe(keys[j], keys[i])
        /\ \A j \in 1..(i - 1) : keys[j] # keys[i]

\* the four results are the first teams attaining the four extremes, and are
\* absent when there is no match
MarketExtremes(matches, ret) ==
    LET r == marketResults(matches)
        avgDiffs == [k \in DOMAIN r |-> r[k].avgDiff]
        overPcts == [k \in DOMAIN r |-> r[k].overPct]
        Neg(keys) == [k \in DOMAIN keys |-> NumNeg(keys[k])]
    IN  IF matches = <<>>
        THEN ret = [nightmares |-> NoRanking, sharps |-> NoRanking,
                    overKings |-> NoRanking, underKings |-> NoRanking]
        ELSE /\ FirstGreatest(ret.nightmares, r, avgDiffs)
             /\ FirstGreatest(ret.sharps, r, Neg(avgDiffs))
             /\ FirstGreatest(ret.overKings, r, overPcts)
             /\ FirstGreatest(ret.underKings, r, Neg(overPcts))

\* C18: each of the four results of calculateMarketInsights is a team
\* attaining its extreme (highest and lowest mean absolute deviation, highest
\* and lowest over%), the first in match order among tied teams; with no
\* matches all four are absent.
C18_MarketExtremes ==
    call.fn = "calculateMarketInsights" => MarketExtremes(call.matches, call.ret)

\* C18 (numeric results only): the same, for matches whose diff is a number.
C18_MarketExtremesOfNumbers ==
    (/\ call.fn = "calculateMarketInsights"
     /\ \A k \in 1..Len(call.matches) : ~IsNaN(call.matches[k].diff))
        => MarketExtremes(call.matches, call.ret)

\* the texts that hold no number: an absent value, the empty text, "abc", "-"
Malformed == {Undefined, <<>>, <<"a", "b", "c">>, <<"-">>}

\* C19: numeric extraction returns 0 for every absent or malformed field
\* (undefined, "", "abc", "-"), so that p and calculatePossessions always
\* return a number.
C19_MalformedIsZero ==
    /\ call.fn = "p" =>
          /\ IsFinite(call.ret)
          /\ call.val \in Malformed => call.ret = Zero
    /\ call.fn = "calculatePossessions" => IsFinite(call.ret)

\* C19 (absent values only): undefined and the empty text give 0, and an
\* absent box-score line gives 0 possessions.
C19_AbsentIsZero ==
    /\ (call.fn = "p" /\ call.val \in {Undefined, <<>>}) => call.ret = Zero
    /\ (call.fn = "calculatePossessions" /\ call.stats = NoStats) => call.ret = Zero

----------------------------------------------------------------------------
(* Properties of the live evaluator *)

\* the default season's league average: the mean totalScore of its processed
\* matches
DefaultSeasonAvg == leagueAvg(defaultMatches)

\* the reversion pick, model projection and combined FG% of a live bet are
\* those of the default season
FromDefaultSeason(bet) ==
    LET deviation == NumSub(bet.line, DefaultSeasonAvg)
        home == FindBy(defaultTeams, "name", normalizeTeamName(bet.home))
        away == FindBy(defaultTeams, "name", normalizeTeamName(bet.away))
    IN  /\ bet.reversionPick = "UNDER" <=> NumGt(deviation, Int2Num(5))
        /\ bet.reversionPick = "OVER" <=> NumLt(deviation, Int2Num(-5))
        /\ (home # NotFound /\ away # NotFound) =>
              /\ bet.projected = projectedTotal(home, away)
              /\ bet.combinedFG = NumDiv(NumAdd(home.avgFG_Pct, away.avgFG_Pct), Int2Num(2))
        /\ (home = NotFound \/ away = NotFound) =>
              bet.modelPick = "NONE" /\ bet.efficiencyPick = "NONE"

\* C20: the live evaluator takes its league average (230 without matches)
\* and its team aggregates from the default season, and a switch of the
\* backtest panel to another dataset changes neither them nor the live bets.
C20_LiveUsesDefaultSeason ==
    /\ [](\A k \in 1..Len(liveValueBets) : FromDefaultSeason(liveValueBets[k]))
    /\ [][backtestMatches' # backtestMatches =>
             /\ defaultMatches' = defaultMatches
             /\ defaultTeams' = defaultTeams
             /\ liveValueBetsOf(liveGames', defaultTeams', defaultMatches',
                                backtestMatches', valueMargin',
                                efficiencyThreshold', liveFilter')
                  = liveValueBets]_vars

\* C20 witness: the backtest panel shows a dataset of another league average
\* than the default season's, and a live bet carries a reversion pick.
C20_Witness ==
    /\ backtestMatches # defaultMatches
    /\ leagueAvg(backtestMatches) # leagueAvg(defaultMatches)
    /\ \E k \in 1..Len(liveValueBets) : liveValueBets[k].reversionPick = "UNDER"

\* C21: the reversion pick of every live bet is the one the backtest rule
\* gives for the bet's line, the default season's league average and the
\* configured margin.
C21_LiveReversionUsesMargin ==
    \A k \in 1..Len(liveValueBets) :
        liveValueBets[k].reversionPick
            = ReversionPick(liveValueBets[k].line, DefaultSeasonAvg, valueMargin)

\* C21 (margin 5 only): the two rules agree while the configured margin is 5.
C21_LiveReversionAtMarginFive ==
    valueMargin = Int2Num(ReversionThreshold) =>
        \A k \in 1..Len(liveValueBets) :
            liveValueBets[k].reversionPick
                = ReversionPick(liveValueBets[k].line, DefaultSeasonAvg, valueMargin)

\* C22: when the loads of successive season requests overlap, the dataset of
\* a later request is never replaced by that of an earlier request whose
\* load completed later, and the loading indicator stays set while the last
\* request is in flight.
C22_LastRequestWins ==
    /\ []((\E k \in 1..Len(loads) : loads[k].req = requested) => isLoadingSeason)
    /\ [][written' >= written]_vars

\* C23: getSeasonData never rejects and resolves to an empty collection for
\* an unknown season id, a non-OK response, a network error and a parse
\* error; a load that resolves to the empty collection leaves the matches of
\* the backtest panel as they were.
C23_FailedLoadKeepsMatches ==
    /\ [](\A id \in SeasonIds \cup {"2023"}, r \in Responses :
             /\ getSeasonData(id, r).state = "fulfilled"
             /\ (id = "2023" \/ r # "ok") => getSeasonData(id, r).value = <<>>)
    /\ [][Len(loads') < Len(loads) =>
             /\ call'.ret.state = "fulfilled"
             /\ call'.ret.value = <<>> => backtestMatches' = backtestMatches]_vars

\* C23 witness: a load failed after another had brought matches, which the
\* panel still shows.
C23_Witness ==
    /\ call.fn = "getSeasonData"
    /\ call.response # "ok"
    /\ call.ret = Fulfilled(<<>>)
    /\ written > 0
    /\ backtestMatches # <<>>
    /\ loads = <<>>

\* the raw record a processed match was made from
RawOf(rawData, id) ==
    rawData[CHOOSE i \in 1..Len(rawData) : rawData[i].match_id = id]

\* the points of both sides over those of Q1..Q4 that the record holds, as
\* numeric extraction reads them
RegulationPoints(raw) ==
    LET held == {i \in 1..4 : Periods[i] \in DOMAIN raw.quarter_scores}
    IN  NumSum([i \in held |->
                   NumAdd(p(raw.quarter_scores[Periods[i]].home_score),
                          p(raw.quarter_scores[Periods[i]].away_score))],
               held)

\* C24: regulationTotal is the sum of the home and away scores of the periods
\* Q1..Q4 the record holds, a missing period counting 0 and an OT period
\* nothing, and isOT tells whether the record has an "OT" period.
C24_RegulationTotal ==
    call.fn = "processMatches" =>
        \A k \in 1..Len(call.ret) :
            LET raw == RawOf(call.rawData, call.ret[k].id)
            IN  /\ call.ret[k].regulationTotal = RegulationPoints(raw)
                /\ call.ret[k].isOT <=> "OT" \in DOMAIN raw.quarter_scores

\* C24 witness: an overtime game whose regulationTotal is below its
\* totalScore, processed together with a game that lacks Q3.
C24_Witness ==
    /\ call.fn = "processMatches"
    /\ \E k \in 1..Len(call.ret) :
          /\ call.ret[k].isOT
          /\ call.ret[k].regulationTotal = Int2Num(220)
          /\ call.ret[k].totalScore = Int2Num(242)
    /\ \E k \in 1..Len(call.ret) :
          /\ "Q3" \notin DOMAIN RawOf(call.rawData, call.ret[k].id).quarter_scores
          /\ call.ret[k].regulationTotal = Int2Num(180)

\* 2 * (FGA + 0.44 * FTA)
TSDenominator(fga, fta) ==
    NumMul(Int2Num(2), NumAdd(fga, NumMul(Frac(44, 100), fta)))

\* the guard: no points or no attempts
TSGuarded(points, fga, fta) == points = Zero \/ TSDenominator(fga, fta) = Zero

\* C25: true-shooting% is 0 whenever points is 0 or 2 * (FGA + 0.44 * FTA)
\* is 0, also with points > 0 and no attempts, in calculateTS, in homeTS and
\* awayTS of processMatches and in avgTS of aggregateTeamStats.
C25_TrueShootingGuarded ==
    /\ (call.fn = "calculateTS" /\ call.stats # NoStats) =>
          (TSGuarded(call.points,
                     p(Field(call.stats, "field_goals_attempted")),
                     p(Field(call.stats, "free_throws_attempted")))
              => call.ret = Zero)
    /\ call.fn = "processMatches" =>
          \A k \in 1..Len(call.ret) :
              LET m == call.ret[k]
                  raw == RawOf(call.rawData, m.id)
                  Att(team, field) == SumStat(raw, team, field)
              IN  /\ TSGuarded(m.homeScore,
                               Att(raw.home_team, "field_goals_attempted"),
                               Att(raw.home_team, "free_throws_attempted"))
                        => m.homeTS = Zero
                  /\ TSGuarded(m.awayScore,
                               Att(raw.away_team, "field_goals_attempted"),
                               Att(raw.away_team, "free_throws_attempted"))
                        => m.awayTS = Zero
    /\ call.fn = "aggregateTeamStats" =>
          \A k \in 1..Len(call.ret) :
              (\A i \in 1..Len(call.rawData) : StatPeriods(call.rawData[i], call.ret[k].name) = {})
                  => call.ret[k].avgTS = Zero

\* C25 (calculateTS only): the function calculateTS has the guard.
C25_CalculateTSGuarded ==
    (call.fn = "calculateTS" /\ call.stats # NoStats) =>
        (TSGuarded(call.points,
                   p(Field(call.stats, "field_goals_attempted")),
                   p(Field(call.stats, "free_throws_attempted")))
            => call.ret = Zero)

\* the record holds all of Q1..Q4
HasFourQuarters(raw) == \A i \in 1..4 : Periods[i] \in DOMAIN raw.quarter_scores

\* the average, over those of the matches whose records hold Q1..Q4, of the
\* fourth quarter's total less the mean of the first three; 0 over none
Q4TrendOver(rawData, matches) ==
    LET counted == {i \in 1..Len(matches) :
                       HasFourQuarters(RawOf(rawData, matches[i].id))}
        diff == [i \in counted |->
                    LET q == matches[i].quarterlyTotals
                    IN  NumSub(q[4], NumDiv(NumAdd(NumAdd(q[1], q[2]), q[3]),
                                            Int2Num(3)))]
    IN  IF counted = {} THEN Zero
        ELSE NumDiv(NumSum(diff, counted), Int2Num(Cardinality(counted)))

\* the trend and its value are those of the given history
Q4TrendIs(rawData, history, ret) ==
    LET value == Q4TrendOver(rawData, SliceTo(history, 10))
    IN  /\ ret.q4TrendValue = value
        /\ ret.q4Trend = "High Intensity (+)" <=> NumGt(value, Int2Num(2))
        /\ ret.q4Trend = "Fade (-)" <=> NumLt(value, Int2Num(-2))
        /\ ret.q4Trend = "Neutral" <=> ~NumGt(value, Int2Num(2)) /\ ~NumLt(value, Int2Num(-2))

\* C26: the Q4 trend is taken over those of the 10 most recent relevant
\* matches whose records hold all of Q1..Q4; it is high-intensity iff the
\* average is > 2, fade iff < -2, neutral otherwise, and 0 and neutral when
\* no match contributes.
C26_Q4TrendOfFullGames ==
    call.fn = "generateMatchInsights" =>
        Q4TrendIs(call.rawData, relevantHistory(call.match, call.allMatches), call.ret)

\* C26 (full records only): the same, when every record of the history
\* holds all of Q1..Q4.
C26_Q4TrendWhenAllFull ==
    (/\ call.fn = "generateMatchInsights"
     /\ \A i \in 1..Len(relevantHistory(call.match, call.allMatches)) :
           HasFourQuarters(RawOf(call.rawData,
                                 relevantHistory(call.match, call.allMatches)[i].id)))
        => Q4TrendIs(call.rawData, relevantHistory(call.match, call.allMatches), call.ret)

----------------------------------------------------------------------------
(* Properties of the backtest's counters *)

\* the number of log entries with the given result
LogsWith(result) == Cardinality({k \in 1..Len(Logs) : Logs[k].result = result})

\* C27: in the displayed BacktestResult wins + losses + pushes = totalBets =
\* the number of log entries, the log holds wins WIN, losses LOSS and pushes
\* PUSH entries, and profit is the sum of the entries' pnl.
C27_CountersAgreeWithLog ==
    /\ results.wins + results.losses + results.pushes = results.totalBets
    /\ results.totalBets = Len(Logs)
    /\ LogsWith("WIN") = results.wins
    /\ LogsWith("LOSS") = results.losses
    /\ LogsWith("PUSH") = results.pushes
    /\ results.profit = NumSum([k \in 1..Len(Logs) |-> Logs[k].pnl], 1..Len(Logs))

\* C27 witness: a run that logged a push and a settled bet with a non-zero
\* profit.
C27_Witness ==
    /\ results.pushes = 1
    /\ results.wins + results.losses = 1
    /\ results.totalBets = 2
    /\ results.profit # Zero

\* getTeamStats finds an entry for both teams of the match
BothTeamsFound(bm, m) ==
    /\ HasTeamStats(currentTeamStats(bm), m.homeTeam)
    /\ HasTeamStats(currentTeamStats(bm), m.awayTeam)

\* C28: the aggregate-stats lookup succeeds for both teams of every match of
\* the active dataset, whatever the teams' names.
C28_StatsFoundForEveryMatch ==
    \A i \in 1..Len(backtestMatches) : BothTeamsFound(backtestMatches, backtestMatches[i])

\* C28 (names left alone): the lookup succeeds for both teams of every match
\* whose teams' names normalizeTeamName does not rewrite.
C28_StatsFoundForPlainNames ==
    \A i \in 1..Len(backtestMatches) :
        (/\ normalizeTeamName(backtestMatches[i].homeTeam) = backtestMatches[i].homeTeam
         /\ normalizeTeamName(backtestMatches[i].awayTeam) = backtestMatches[i].awayTeam)
            => BothTeamsFound(backtestMatches, backtestMatches[i])

----------------------------------------------------------------------------
(* Properties of the data provider *)

\* C29: after the provider mounts, loading eventually becomes false and
\* never returns to true, whether the historical fetch, the parsing and the
\* live-odds fetch succeed or fail; after a failed historical fetch matches
\* and teams stay empty.
C29_LoadingEnds ==
    /\ <>[](~loading)
    /\ [][~loading => ~loading']_vars
    /\ [](loadData = "failed" => defaultMatches = <<>> /\ defaultTeams = <<>>)

\* C29 witness: the historical data is loaded, the live-odds fetch of
\* loadData has failed and loading is false.
C29_Witness ==
    /\ ~loading
    /\ loadData = "done"
    /\ Len(defaultMatches) > 0
    /\ call.fn = "fetchLiveOdds" /\ call.caller = "loadData"
    /\ call.response = "networkError"

\* every entry is filed under its own game, joins two different lines and
\* points the way the line went
MovementsWellFormed(movements) ==
    \A g \in DOMAIN movements :
        /\ movements[g].gameId = g
        /\ ~NumEq(movements[g].oldLine, movements[g].newLine)
        /\ movements[g].direction = "UP"
              <=> NumGt(movements[g].newLine, movements[g].oldLine)
        /\ movements[g].direction = "DOWN"
              <=> NumLt(movements[g].newLine, movements[g].oldLine)

\* game g, held by games with a line, comes in newGames with another line
LineMoved(g, games, newGames) ==
    /\ GameOf(games, g) # NotFound
    /\ GameOf(newGames, g) # NotFound
    /\ getLineFromGame(GameOf(games, g)) # Null
    /\ getLineFromGame(GameOf(newGames, g)) # Null
    /\ ~NumEq(getLineFromGame(GameOf(newGames, g)), getLineFromGame(GameOf(games, g)))

\* what a settled refresh did to a state holding games and movements: a
\* failed one nothing, a successful one a movement for exactly the games
\* whose line moved, the other games' movements kept
RefreshedAsClaimed(games, movements, gamesAfter, movementsAfter, settled) ==
    IF settled.response # "ok"
    THEN gamesAfter = games /\ movementsAfter = movements
    ELSE /\ gamesAfter = settled.newGames
         /\ \A g \in DOMAIN movements \cup DOMAIN movementsAfter
                        \cup {settled.newGames[i].id : i \in DOMAIN settled.newGames} :
               IF LineMoved(g, games, settled.newGames)
               THEN /\ g \in DOMAIN movementsAfter
                    /\ movementsAfter[g] =
                          Movement(g, getLineFromGame(GameOf(games, g)),
                                   getLineFromGame(GameOf(settled.newGames, g)))
               ELSE /\ g \in DOMAIN movementsAfter <=> g \in DOMAIN movements
                    /\ g \in DOMAIN movements => movementsAfter[g] = movements[g]

\* C30: every lineMovements entry under key g has gameId = g, oldLine #
\* newLine and direction UP iff newLine > oldLine (DOWN iff <); a refresh
\* records a movement only for a game of the previous snapshot whose non-null
\* line differs from its new non-null line and keeps the movements of the
\* other games; a failed refresh leaves liveGames and lineMovements unchanged.
C30_LineMovements ==
    /\ [](MovementsWellFormed(lineMovements))
    /\ [][Len(oddsCalls') < Len(oddsCalls)
             => RefreshedAsClaimed(liveGames, lineMovements, liveGames',
                                   lineMovements', call')]_vars

\* C30 (the entries): every entry is well formed in every state.
C30_EntriesWellFormed == MovementsWellFormed(lineMovements)

\* C30 (no change while awaited): a refresh does as claimed when the state
\* is still the one its call started from.
C30_RefreshOfUnchangedState ==
    [][(/\ Len(oddsCalls') < Len(oddsCalls)
        /\ \A k \in DOMAIN oddsCalls :
              /\ oddsCalls[k].liveGames = liveGames
              /\ oddsCalls[k].lineMovements = lineMovements)
          => RefreshedAsClaimed(liveGames, lineMovements, liveGames',
                                lineMovements', call')]_vars

====
